---- MODULE Spec2Model ----
(***************************************************************************)
(* A model of the Leo compiler front end: the canonicalization pass        *)
(* (SpecCanon), the expression parser (SpecParse), the IR emitter          *)
(* (SpecEmit), the symbol resolver (SpecCheck), the compiler driver        *)
(* (SpecDrive), the entry of the constraint generator (SpecEnforce), the   *)
(* annotation pass (SpecAnnotate) and the flat type equality (SpecTypes).  *)
(*                                                                         *)
(* AST nodes are records tagged by the field k.  Results of fallible       *)
(* operations are records [ok, val, err]; a Rust panic (unwrap on None,    *)
(* unreachable!) is the error "panic".                                     *)
(***************************************************************************)
EXTENDS Integers, Sequences, FiniteSets, TLC

VARIABLES
    in_circuit,     \* Canonicalizer.in_circuit
    circuit_name,   \* Canonicalizer.circuit_name (None or Some(name))
    item,           \* the AST node handed to the pass
    results,        \* the results of the passes run so far, oldest first
    tokens,         \* ParserContext.tokens: the spanned tokens of the source
    pos,            \* the parser's cursor: the index of ParserContext.token
    disallow_circuit_construction,  \* ParserContext.disallow_circuit_construction
    parsed,         \* the result of the parse, once it has run
    registers,      \* IrEmitter.registers: the live registers, oldest first
    buffer,         \* IrEmitter.buffer: the instructions emitted so far
    emitted,        \* what the last call into the emitter did
    checker_function,  \* the Function handed to the TypeChecker
    function_symbol,   \* what TypeChecker::convert_function returned
    ast,            \* Compiler.ast
    input_ast,      \* Compiler.input_ast
    output_directory,  \* the snapshot files under Compiler.output_directory
    returned,       \* what the last call into the Compiler returned
    asg,            \* Program.asg: the program handed to enforce_program
    enforced,       \* what enforce_program did: its calls in order, its result
    ast_program,    \* the leo_ast::Program handed to the annotation pass
    annotated,      \* what handle_internal_annotations left, once it has run
    type_pair,      \* the two Type values handed to eq_flat
    compared        \* what eq_flat and == returned for them

canon_vars == <<in_circuit, circuit_name, item, results>>
parser_vars == <<tokens, pos, disallow_circuit_construction, parsed>>
emit_vars == <<registers, buffer, emitted>>
checker_vars == <<checker_function, function_symbol>>
driver_vars == <<ast, input_ast, output_directory, returned>>
unit_vars == <<asg, enforced, ast_program, annotated, type_pair, compared>>
stage_vars == <<emit_vars, checker_vars, driver_vars, unit_vars>>
vars == <<canon_vars, parser_vars, stage_vars>>

--------------------------------------------------------------------------
(* Bounds of the model *)

MaxDim == 2        \* array dimensions range over 0..MaxDim
MaxDims == 2       \* a dimension list has at most MaxDims entries
MaxTuple == 2      \* a tuple type of the first layer has at most MaxTuple members
MaxPasses == 2     \* the pass is run at most MaxPasses times on one item
MaxStr == 3        \* a string literal has at most MaxStr characters
MaxAccesses == 2   \* an assignee has at most MaxAccesses accesses
MaxOps == 3        \* a flat source expression has at most MaxOps infix operators
MaxPrefix == 2     \* an operand has at most MaxPrefix prefix operators
MaxChain == 4      \* a chain of one infix operator has at most MaxChain operators
MaxElems == 2      \* a parenthesised list has at most MaxElems elements
MaxRegs == 3       \* at most MaxRegs registers are taken by declarations
MaxParams == 2     \* a function has at most MaxParams parameters
MaxItems == 2      \* a source text has at most MaxItems items
MaxGap == 2        \* a literal and its suffix are at most MaxGap columns apart
MaxBuffer == 2     \* at most MaxBuffer instructions are emitted one by one
MaxFunctions == 2  \* a program has at most MaxFunctions top-level functions
MaxAnnotations == 2  \* a function has at most MaxAnnotations annotations

--------------------------------------------------------------------------
(* Results *)

None == [k |-> "None"]
Some(x) == [k |-> "Some", v |-> x]

Ok(x) == [ok |-> TRUE, val |-> x, err |-> "none"]
\* the `?` operator: an Err is returned as it is, the rest runs on the value of
\* an Ok
AndThen(r, F(_)) == IF r.ok THEN F(r.val) ELSE r

Err(e) == [ok |-> FALSE, val |-> None, err |-> e]

\* the stages that a specification does not run are not constructed
EmitterIdle == registers = <<>> /\ buffer = <<>> /\ emitted = None
CheckerIdle == checker_function = None /\ function_symbol = None
DriverIdle ==
    ast = None /\ input_ast = None /\ output_directory = <<>> /\ returned = None
UnitsIdle ==
    /\ asg = None /\ enforced = None
    /\ ast_program = None /\ annotated = None
    /\ type_pair = None /\ compared = None
StagesIdle == EmitterIdle /\ CheckerIdle /\ DriverIdle /\ UnitsIdle

\* All sequences over S of length lo..hi
SeqsOf(S, lo, hi) == UNION {[1..n -> S] : n \in lo..hi}

--------------------------------------------------------------------------
(* Types *)

TyU8 == [k |-> "IntegerType", name |-> "U8"]
TyBool == [k |-> "Boolean", name |-> "bool"]
SelfType == [k |-> "SelfType", name |-> "Self"]
TyIdentifier(n) == [k |-> "Identifier", name |-> n]
TyArray(elem, dims) == [k |-> "Array", elem |-> elem, dims |-> dims]
TyTuple(types) == [k |-> "Tuple", types |-> types]

\* ArrayDimensions::is_zero: some dimension of the list is zero
is_zero(dims) == \E i \in 1..Len(dims) : dims[i] = 0

\* ArrayDimensions::single
single(dim) == <<dim>>

\* iter.fold(base, |ty, dim| ctor(Box::new(ty), dim)) over dims[i], dims[i-1], .., dims[1]
RECURSIVE fold_ctor(_, _, _)
fold_ctor(ty, dims, i) ==
    IF i = 0 THEN ty
    ELSE fold_ctor(TyArray(ty, single(dims[i])), dims, i - 1)

\* A plausible slip: the dimensions are folded without .rev(), outermost first
RECURSIVE fold_ctor_norev(_, _, _)
fold_ctor_norev(ty, dims, i) ==
    IF i > Len(dims) THEN ty
    ELSE fold_ctor_norev(TyArray(ty, single(dims[i])), dims, i + 1)

reduce_type_norev(new, in_circ) ==
    IF new.k = "Array" /\ Len(new.dims) = 0 THEN Ok(new)
    ELSE IF new.k = "Array" /\ is_zero(new.dims) THEN Err("invalid_array_dimension_size")
    ELSE IF new.k = "Array" THEN Ok(fold_ctor_norev(new.elem, new.dims, 1))
    ELSE IF new.k = "SelfType" /\ ~in_circ THEN Err("big_self_outside_of_circuit")
    ELSE IF new.k = "Tuple" /\ Len(new.types) = 1 THEN Err("invalid_tuple_dimension_size")
    ELSE Ok(new)

\* A plausible slip: the guard of the Self arm is inverted
reduce_type_self_guard(new, in_circ) ==
    IF new.k = "Array" /\ Len(new.dims) = 0 THEN Ok(new)
    ELSE IF new.k = "Array" /\ is_zero(new.dims) THEN Err("invalid_array_dimension_size")
    ELSE IF new.k = "Array" THEN
        Ok(fold_ctor(TyArray(new.elem, single(new.dims[Len(new.dims)])),
                     new.dims, Len(new.dims) - 1))
    ELSE IF new.k = "SelfType" /\ in_circ THEN Err("big_self_outside_of_circuit")
    ELSE IF new.k = "Tuple" /\ Len(new.types) = 1 THEN Err("invalid_tuple_dimension_size")
    ELSE Ok(new)

\* A plausible slip: the tuple arm tests types.len() <= 1
reduce_type_tuple_le1(new, in_circ) ==
    IF new.k = "Array" /\ Len(new.dims) = 0 THEN Ok(new)
    ELSE IF new.k = "Array" /\ is_zero(new.dims) THEN Err("invalid_array_dimension_size")
    ELSE IF new.k = "Array" THEN
        Ok(fold_ctor(TyArray(new.elem, single(new.dims[Len(new.dims)])),
                     new.dims, Len(new.dims) - 1))
    ELSE IF new.k = "SelfType" /\ ~in_circ THEN Err("big_self_outside_of_circuit")
    ELSE IF new.k = "Tuple" /\ Len(new.types) <= 1 THEN Err("invalid_tuple_dimension_size")
    ELSE Ok(new)

\* Canonicalizer::reduce_type (the reducer callback: `new` has reduced children)
reduce_type(new, in_circ) ==
    IF new.k = "Array" /\ Len(new.dims) = 0 THEN Ok(new)
    ELSE IF new.k = "Array" /\ is_zero(new.dims) THEN Err("invalid_array_dimension_size")
    ELSE IF new.k = "Array" THEN
        Ok(fold_ctor(TyArray(new.elem, single(new.dims[Len(new.dims)])),
                     new.dims, Len(new.dims) - 1))
    ELSE IF new.k = "SelfType" /\ ~in_circ THEN Err("big_self_outside_of_circuit")
    ELSE IF new.k = "Tuple" /\ Len(new.types) = 1 THEN Err("invalid_tuple_dimension_size")
    ELSE Ok(new)

\* The first failed result of a sequence of results, or Ok of the values
Collect(rs) ==
    IF \E i \in 1..Len(rs) : ~rs[i].ok
    THEN rs[CHOOSE i \in 1..Len(rs) : ~rs[i].ok /\ \A j \in 1..(i - 1) : rs[j].ok]
    ELSE Ok([i \in 1..Len(rs) |-> rs[i].val])

\* The reducing director on a type: children first, in order, first error wins,
\* then the reducer callback on the node rebuilt from its reduced children
RECURSIVE director_reduce_type(_, _)
director_reduce_type(type_, in_circ) ==
    IF type_.k = "Array" THEN
        AndThen(director_reduce_type(type_.elem, in_circ),
                LAMBDA elem : reduce_type(TyArray(elem, type_.dims), in_circ))
    ELSE IF type_.k = "Tuple" THEN
        AndThen(Collect([i \in 1..Len(type_.types) |->
                            director_reduce_type(type_.types[i], in_circ)]),
                LAMBDA types : reduce_type(TyTuple(types), in_circ))
    ELSE reduce_type(type_, in_circ)

--------------------------------------------------------------------------
(* Expressions *)

\* a span reduced to what the pass reads of it: the 1-based columns and the bytes
\* of the source line
Span(col_start, col_stop, content) ==
    [col_start |-> col_start, col_stop |-> col_stop, content |-> content]

NoContent == <<>>
DummySpan == Span(1, 2, NoContent)

Identifier(n) == [k |-> "Identifier", name |-> n]
IntegerValue(v) == [k |-> "Integer", value |-> v]
CharValue(c, span) == [k |-> "Char", character |-> c, span |-> span]
StringValue(chars, span) == [k |-> "String", chars |-> chars, span |-> span]
Binary(op, left, right, span) ==
    [k |-> "Binary", op |-> op, left |-> left, right |-> right, span |-> span]
Cast(inner, target_type) == [k |-> "Cast", inner |-> inner, target_type |-> target_type]
ArrayInit(element, dims, span) ==
    [k |-> "ArrayInit", element |-> element, dims |-> dims, span |-> span]
ArrayInline(elements, span) == [k |-> "ArrayInline", elements |-> elements, span |-> span]
CircuitInit(n) == [k |-> "CircuitInit", name |-> n]
ArrayAccess(array, index, span) ==
    [k |-> "ArrayAccess", array |-> array, index |-> index, span |-> span]
ArrayRangeAccess(array, left, right, span) ==
    [k |-> "ArrayRangeAccess", array |-> array, left |-> left, right |-> right, span |-> span]
TupleAccess(tuple, index, span) ==
    [k |-> "TupleAccess", tuple |-> tuple, index |-> index, span |-> span]
MemberAccess(inner, name, span) ==
    [k |-> "MemberAccess", inner |-> inner, name |-> name, span |-> span]

\* the marker left where `self.circuit_name.as_ref().unwrap()` panics
PanicType == [k |-> "Panic", name |-> "unwrap on None"]

RECURSIVE HasPanicType(_)
HasPanicType(t) ==
    IF t.k = "Panic" THEN TRUE
    ELSE IF t.k = "Array" THEN HasPanicType(t.elem)
    ELSE IF t.k = "Tuple" THEN \E i \in 1..Len(t.types) : HasPanicType(t.types[i])
    ELSE FALSE

\* Canonicalizer::canonicalize_self_type
RECURSIVE canonicalize_self_type(_, _)
canonicalize_self_type(type_, cn) ==
    IF type_.k = "SelfType" THEN
        IF cn.k = "Some" THEN TyIdentifier(cn.v) ELSE PanicType
    ELSE IF type_.k = "Array" THEN
        TyArray(canonicalize_self_type(type_.elem, cn), type_.dims)
    ELSE IF type_.k = "Tuple" THEN
        TyTuple([i \in 1..Len(type_.types) |-> canonicalize_self_type(type_.types[i], cn)])
    ELSE type_

MapOption(o, F(_)) == IF o.k = "Some" THEN Some(F(o.v)) ELSE None

\* Canonicalizer::canonicalize_expression
RECURSIVE canonicalize_expression(_, _)
canonicalize_expression(e, cn) ==
    IF e.k = "Binary" THEN
        Binary(e.op, canonicalize_expression(e.left, cn),
               canonicalize_expression(e.right, cn), e.span)
    ELSE IF e.k = "Cast" THEN
        Cast(canonicalize_expression(e.inner, cn), canonicalize_self_type(e.target_type, cn))
    ELSE IF e.k = "ArrayAccess" THEN
        ArrayAccess(canonicalize_expression(e.array, cn),
                    canonicalize_expression(e.index, cn), e.span)
    ELSE IF e.k = "ArrayRangeAccess" THEN
        LET f(x) == canonicalize_expression(x, cn)
        IN  ArrayRangeAccess(canonicalize_expression(e.array, cn),
                             MapOption(e.left, f), MapOption(e.right, f), e.span)
    ELSE IF e.k = "MemberAccess" THEN
        MemberAccess(canonicalize_expression(e.inner, cn), e.name, e.span)
    ELSE IF e.k = "TupleAccess" THEN
        TupleAccess(canonicalize_expression(e.tuple, cn), e.index, e.span)
    ELSE IF e.k = "ArrayInline" THEN
        ArrayInline([i \in 1..Len(e.elements) |-> canonicalize_expression(e.elements[i], cn)],
                    e.span)
    ELSE IF e.k = "ArrayInit" THEN
        ArrayInit(canonicalize_expression(e.element, cn), e.dims, e.span)
    ELSE IF e.k = "CircuitInit" THEN
        IF e.name = "Self" /\ cn.k = "Some" THEN CircuitInit(cn.v) ELSE e
    ELSE IF e.k = "Identifier" THEN
        IF e.name = "Self" /\ cn.k = "Some" THEN Identifier(cn.v) ELSE e
    ELSE e

\* the byte at 0-based position i of the source line
ByteAt(content, i) == content[i + 1]

\* A plausible slip: the closing brace is not counted
RECURSIVE unicode_width_open(_, _, _, _)
unicode_width_open(bytes, col_start, index, width) ==
    IF ByteAt(bytes, col_start + index) # "}"
    THEN unicode_width_open(bytes, col_start, index + 1, width + 1)
    ELSE width

\* the `b'u'` arm of reduce_string: width of `u{h..h}` counted up to the brace
RECURSIVE unicode_width(_, _, _, _)
unicode_width(bytes, col_start, index, width) ==
    IF ByteAt(bytes, col_start + index) # "}"
    THEN unicode_width(bytes, col_start, index + 1, width + 1)
    ELSE width + 1

\* the loop of reduce_string from 0-based position `index` on
RECURSIVE string_elements(_, _, _, _)
string_elements(string, span, index, col_adder) ==
    IF index >= Len(string) THEN <<>>
    ELSE
        LET col_start == span.col_start + index + 1 + col_adder
            bytes == span.content
            escaped == ByteAt(bytes, col_start - 1) = "\\"
            width ==
                IF ~escaped THEN 0
                ELSE IF ByteAt(bytes, col_start) = "x" THEN 3
                ELSE IF ByteAt(bytes, col_start) = "u"
                    THEN unicode_width(bytes, col_start, 1, 1)
                ELSE 1
            col_stop == IF escaped THEN col_start + 1 + width ELSE col_start + 1
        IN  <<CharValue(string[index + 1], Span(col_start, col_stop, span.content))>>
            \o string_elements(string, span, index + 1, col_adder + width)

\* A plausible slip: the loop starts at the second character
reduce_string_skip_first(string, span) ==
    IF Len(string) = 0 THEN Err("empty_string")
    ELSE LET elements == string_elements(string, span, 1, 0)
         IN  IF Len(elements) = 0 THEN Err("invalid_array_dimension_size")
             ELSE Ok(ArrayInline(elements, span))

\* Canonicalizer::reduce_string
reduce_string(string, span) ==
    IF Len(string) = 0 THEN Err("empty_string")
    ELSE LET elements == string_elements(string, span, 0, 0)
         IN  IF Len(elements) = 0 THEN Err("invalid_array_dimension_size")
             ELSE Ok(ArrayInline(elements, span))

\* iter.fold(init, |elem, dim| mk_expr(Box::new(Expression::ArrayInit(elem)), dim))
RECURSIVE fold_mk_expr(_, _, _, _)
fold_mk_expr(elem, dims, i, span) ==
    IF i = 0 THEN elem
    ELSE fold_mk_expr(ArrayInit(elem, single(dims[i]), span), dims, i - 1, span)

\* Canonicalizer::reduce_array_init
reduce_array_init(array_init, element) ==
    IF Len(array_init.dims) = 0 THEN Err("panic")    \* iter.next().unwrap()
    ELSE Ok(fold_mk_expr(ArrayInit(element, single(array_init.dims[Len(array_init.dims)]),
                                   array_init.span),
                         array_init.dims, Len(array_init.dims) - 1, array_init.span))

\* the reducing director on an optional expression
ReduceOption(o, F(_)) ==
    IF o.k = "Some"
    THEN LET r == F(o.v) IN IF r.ok THEN Ok(Some(r.val)) ELSE r
    ELSE Ok(None)

\* The reducing director on an expression: children first, in order, first error
\* wins, then the reducer callback (the trait's default rebuilds the node)
RECURSIVE director_reduce_expression(_, _)
director_reduce_expression(e, in_circ) ==
    LET R(x) == director_reduce_expression(x, in_circ)
    IN
    IF e.k = "String" THEN reduce_string(e.chars, e.span)
    ELSE IF e.k = "Binary" THEN
        AndThen(Collect(<<R(e.left), R(e.right)>>),
                LAMBDA cs : Ok(Binary(e.op, cs[1], cs[2], e.span)))
    ELSE IF e.k = "Cast" THEN
        AndThen(Collect(<<R(e.inner), director_reduce_type(e.target_type, in_circ)>>),
                LAMBDA cs : Ok(Cast(cs[1], cs[2])))
    ELSE IF e.k = "ArrayInit" THEN
        AndThen(R(e.element), LAMBDA element : reduce_array_init(e, element))
    ELSE IF e.k = "ArrayInline" THEN
        AndThen(Collect([i \in 1..Len(e.elements) |-> R(e.elements[i])]),
                LAMBDA elements : Ok(ArrayInline(elements, e.span)))
    ELSE IF e.k = "ArrayAccess" THEN
        AndThen(Collect(<<R(e.array), R(e.index)>>),
                LAMBDA cs : Ok(ArrayAccess(cs[1], cs[2], e.span)))
    ELSE IF e.k = "ArrayRangeAccess" THEN
        AndThen(Collect(<<R(e.array), ReduceOption(e.left, R), ReduceOption(e.right, R)>>),
                LAMBDA cs : Ok(ArrayRangeAccess(cs[1], cs[2], cs[3], e.span)))
    ELSE IF e.k = "MemberAccess" THEN
        AndThen(R(e.inner), LAMBDA inner : Ok(MemberAccess(inner, e.name, e.span)))
    ELSE IF e.k = "TupleAccess" THEN
        AndThen(R(e.tuple), LAMBDA tuple : Ok(TupleAccess(tuple, e.index, e.span)))
    ELSE Ok(e)

--------------------------------------------------------------------------
(* Statements *)

AssigneeArrayIndex(index) == [k |-> "ArrayIndex", index |-> index]
AssigneeArrayRange(left, right) == [k |-> "ArrayRange", left |-> left, right |-> right]
AssigneeTuple(index) == [k |-> "Tuple", index |-> index]
AssigneeMember(name) == [k |-> "Member", name |-> name]
Assignee(identifier, accesses) == [identifier |-> identifier, accesses |-> accesses]

Return(expression) == [k |-> "Return", expression |-> expression]
Definition(type_, value) == [k |-> "Definition", type_ |-> type_, value |-> value]
Assign(operation, assignee, value, span) ==
    [k |-> "Assign", operation |-> operation, assignee |-> assignee, value |-> value,
     span |-> span]
ExpressionStatement(expression) == [k |-> "Expression", expression |-> expression]

\* AssignOperation, without Assign
CompoundOperations ==
    {"Add", "Sub", "Mul", "Div", "Pow", "Or", "And", "BitOr", "BitAnd", "BitXor",
     "Shr", "ShrSigned", "Shl", "Mod"}

AssignOperations == {"Assign"} \cup CompoundOperations

\* Canonicalizer::compound_operation_conversion: AssignOperation to the
\* BinaryOperation of the same name; unreachable!() on Assign
compound_operation_conversion(operation) ==
    IF operation = "Assign" THEN Err("panic")
    ELSE IF operation = "Add" THEN Ok("Add")
    ELSE IF operation = "Sub" THEN Ok("Sub")
    ELSE IF operation = "Mul" THEN Ok("Mul")
    ELSE IF operation = "Div" THEN Ok("Div")
    ELSE IF operation = "Pow" THEN Ok("Pow")
    ELSE IF operation = "Or" THEN Ok("Or")
    ELSE IF operation = "And" THEN Ok("And")
    ELSE IF operation = "BitOr" THEN Ok("BitOr")
    ELSE IF operation = "BitAnd" THEN Ok("BitAnd")
    ELSE IF operation = "BitXor" THEN Ok("BitXor")
    ELSE IF operation = "Shr" THEN Ok("Shr")
    ELSE IF operation = "ShrSigned" THEN Ok("ShrSigned")
    ELSE IF operation = "Shl" THEN Ok("Shl")
    ELSE Ok("Mod")

\* Canonicalizer::canonicalize_assignee_access
canonicalize_assignee_access(access, cn) ==
    IF access.k = "ArrayRange" THEN
        LET f(x) == canonicalize_expression(x, cn)
        IN  AssigneeArrayRange(MapOption(access.left, f), MapOption(access.right, f))
    ELSE IF access.k = "ArrayIndex" THEN
        AssigneeArrayIndex(canonicalize_expression(access.index, cn))
    ELSE access

\* one turn of the loop of canonicalize_accesses
access_expression(left, access, span) ==
    IF access.k = "ArrayIndex" THEN ArrayAccess(left, access.index, span)
    ELSE IF access.k = "ArrayRange" THEN ArrayRangeAccess(left, access.left, access.right, span)
    ELSE IF access.k = "Tuple" THEN TupleAccess(left, access.index, span)
    ELSE MemberAccess(left, access.name, span)

\* Canonicalizer::canonicalize_accesses, from access number i on
RECURSIVE canonicalize_accesses(_, _, _, _, _)
canonicalize_accesses(start, accesses, span, cn, i) ==
    IF i > Len(accesses) THEN start
    ELSE canonicalize_accesses(
             access_expression(start, canonicalize_assignee_access(accesses[i], cn), span),
             accesses, span, cn, i + 1)

\* Canonicalizer::canonicalize_assignee
canonicalize_assignee(assignee, cn) ==
    Assignee(assignee.identifier,
             [i \in 1..Len(assignee.accesses) |->
                 canonicalize_assignee_access(assignee.accesses[i], cn)])

\* Canonicalizer::canonicalize_statement
canonicalize_statement(statement, cn) ==
    IF statement.k = "Return" THEN
        Return(canonicalize_expression(statement.expression, cn))
    ELSE IF statement.k = "Definition" THEN
        Definition(canonicalize_self_type(statement.type_, cn),
                   canonicalize_expression(statement.value, cn))
    ELSE IF statement.k = "Assign" THEN
        Assign(statement.operation, canonicalize_assignee(statement.assignee, cn),
               canonicalize_expression(statement.value, cn), statement.span)
    ELSE ExpressionStatement(canonicalize_expression(statement.expression, cn))

\* Canonicalizer::canonicalize_block
canonicalize_block(block, cn) ==
    [i \in 1..Len(block) |-> canonicalize_statement(block[i], cn)]

\* Canonicalizer::reduce_definition
reduce_definition(definition, type_, value, cn) ==
    LET t == canonicalize_self_type(type_, cn)
    IN  IF HasPanicType(t) THEN Err("panic") ELSE Ok(Definition(t, value))

\* A plausible slip: the statement keeps its compound operation
reduce_assign_keep_operation(assign, assignee, value, cn) ==
    IF assign.operation # "Assign" THEN
        LET left == canonicalize_accesses(Identifier(assignee.identifier),
                                          assignee.accesses, assign.span, cn, 1)
            op == compound_operation_conversion(assign.operation)
        IN  IF op.ok
            THEN Ok(Assign(assign.operation, assignee,
                           Binary(op.val, left, value, assign.span), assign.span))
            ELSE op
    ELSE Ok(Assign("Assign", assignee, value, assign.span))

\* A plausible slip: the operands of the new binary expression are swapped
reduce_assign_swapped(assign, assignee, value, cn) ==
    IF assign.operation # "Assign" THEN
        LET left == canonicalize_accesses(Identifier(assignee.identifier),
                                          assignee.accesses, assign.span, cn, 1)
            op == compound_operation_conversion(assign.operation)
        IN  IF op.ok
            THEN Ok(Assign("Assign", assignee,
                           Binary(op.val, value, left, assign.span), assign.span))
            ELSE op
    ELSE Ok(Assign("Assign", assignee, value, assign.span))

\* Canonicalizer::reduce_assign
reduce_assign(assign, assignee, value, cn) ==
    IF assign.operation # "Assign" THEN
        LET left == canonicalize_accesses(Identifier(assignee.identifier),
                                          assignee.accesses, assign.span, cn, 1)
            op == compound_operation_conversion(assign.operation)
        IN  IF op.ok
            THEN Ok(Assign("Assign", assignee,
                           Binary(op.val, left, value, assign.span), assign.span))
            ELSE op
    ELSE Ok(Assign("Assign", assignee, value, assign.span))

\* the reducing director on an assignee access
director_reduce_assignee_access(access, in_circ) ==
    LET R(x) == director_reduce_expression(x, in_circ)
    IN  IF access.k = "ArrayIndex" THEN
            AndThen(R(access.index), LAMBDA index : Ok(AssigneeArrayIndex(index)))
        ELSE IF access.k = "ArrayRange" THEN
            AndThen(Collect(<<ReduceOption(access.left, R), ReduceOption(access.right, R)>>),
                    LAMBDA cs : Ok(AssigneeArrayRange(cs[1], cs[2])))
        ELSE Ok(access)

\* the reducing director on an assignee
director_reduce_assignee(assignee, in_circ) ==
    AndThen(Collect([i \in 1..Len(assignee.accesses) |->
                        director_reduce_assignee_access(assignee.accesses[i], in_circ)]),
            LAMBDA accesses : Ok(Assignee(assignee.identifier, accesses)))

\* The reducing director on a statement; cn is the canonicalizer's circuit_name
\* at the time of the callback
director_reduce_statement(statement, in_circ, cn) ==
    LET R(x) == director_reduce_expression(x, in_circ)
    IN
    IF statement.k = "Return" THEN
        AndThen(R(statement.expression), LAMBDA expression : Ok(Return(expression)))
    ELSE IF statement.k = "Definition" THEN
        AndThen(Collect(<<director_reduce_type(statement.type_, in_circ), R(statement.value)>>),
                LAMBDA cs : reduce_definition(statement, cs[1], cs[2], cn))
    ELSE IF statement.k = "Assign" THEN
        AndThen(Collect(<<director_reduce_assignee(statement.assignee, in_circ),
                          R(statement.value)>>),
                LAMBDA cs : reduce_assign(statement, cs[1], cs[2], cn))
    ELSE
        AndThen(R(statement.expression),
                LAMBDA expression : Ok(ExpressionStatement(expression)))

\* the reducing director on a block
director_reduce_block(block, in_circ, cn) ==
    Collect([i \in 1..Len(block) |-> director_reduce_statement(block[i], in_circ, cn)])

--------------------------------------------------------------------------
(* Functions, circuits, programs *)

FunctionInput(identifier, type_) == [identifier |-> identifier, type_ |-> type_]
Function(identifier, input, output, block) ==
    [identifier |-> identifier, input |-> input, output |-> output, block |-> block]
CircuitConst(identifier, type_, value) ==
    [k |-> "CircuitConst", identifier |-> identifier, type_ |-> type_, value |-> value]
CircuitVariable(identifier, type_) ==
    [k |-> "CircuitVariable", identifier |-> identifier, type_ |-> type_]
CircuitFunction(function) == [k |-> "CircuitFunction", function |-> function]
Circuit(name, members) == [circuit_name |-> name, members |-> members]
Program(circuits, functions) == [circuits |-> circuits, functions |-> functions]

\* Canonicalizer::canonicalize_function_input
canonicalize_function_input(input, cn) ==
    FunctionInput(input.identifier, canonicalize_self_type(input.type_, cn))

\* Canonicalizer::canonicalize_circuit_member
canonicalize_circuit_member(circuit_member, cn) ==
    IF circuit_member.k = "CircuitConst" THEN
        CircuitConst(circuit_member.identifier, circuit_member.type_,
                     canonicalize_expression(circuit_member.value, cn))
    ELSE IF circuit_member.k = "CircuitFunction" THEN
        LET function == circuit_member.function
        IN  CircuitFunction(Function(
                function.identifier,
                [i \in 1..Len(function.input) |->
                    canonicalize_function_input(function.input[i], cn)],
                canonicalize_self_type(function.output, cn),
                canonicalize_block(function.block, cn)))
    ELSE circuit_member

\* Canonicalizer::reduce_function
reduce_function(function, identifier, input, output, block) ==
    Ok(Function(identifier, input, output, block))

\* A plausible slip: circuit_name is not reset on return
reduce_circuit_keeps_name(name, members) ==
    LET cn == Some(name)
    IN  [r |-> Ok(Circuit(name, [i \in 1..Len(members) |->
                                    canonicalize_circuit_member(members[i], cn)])),
         circuit_name |-> cn]

\* Canonicalizer::reduce_circuit: circuit_name is Some(name) while the members
\* are mapped and None again on return; the result and the field it leaves
reduce_circuit(name, members) ==
    LET cn == Some(name)
    IN  [r |-> Ok(Circuit(name, [i \in 1..Len(members) |->
                                    canonicalize_circuit_member(members[i], cn)])),
         circuit_name |-> None]

\* the reducing director on a function
director_reduce_function(function, in_circ, cn) ==
    LET input == Collect([i \in 1..Len(function.input) |->
                     AndThen(director_reduce_type(function.input[i].type_, in_circ),
                             LAMBDA t : Ok(FunctionInput(function.input[i].identifier, t)))])
    IN  AndThen(Collect(<<input, director_reduce_type(function.output, in_circ),
                          director_reduce_block(function.block, in_circ, cn)>>),
                LAMBDA cs :
                    reduce_function(function, function.identifier, cs[1], cs[2], cs[3]))

\* the reducing director on a circuit member
director_reduce_circuit_member(member, in_circ, cn) ==
    IF member.k = "CircuitConst" THEN
        AndThen(Collect(<<director_reduce_type(member.type_, in_circ),
                          director_reduce_expression(member.value, in_circ)>>),
                LAMBDA cs : Ok(CircuitConst(member.identifier, cs[1], cs[2])))
    ELSE IF member.k = "CircuitVariable" THEN
        AndThen(director_reduce_type(member.type_, in_circ),
                LAMBDA t : Ok(CircuitVariable(member.identifier, t)))
    ELSE
        AndThen(director_reduce_function(member.function, in_circ, cn),
                LAMBDA f : Ok(CircuitFunction(f)))

\* the reducing director on a circuit: the members first, with the
\* canonicalizer's circuit_name as the last callback left it, then
\* Canonicalizer::reduce_circuit
director_reduce_circuit(circuit, in_circ, cn) ==
    LET with_members(members) ==
            IF ~members.ok THEN [r |-> members, circuit_name |-> cn]
            ELSE reduce_circuit(circuit.circuit_name, members.val)
    IN  with_members(Collect([i \in 1..Len(circuit.members) |->
                        director_reduce_circuit_member(circuit.members[i], in_circ, cn)]))

\* the reducing director on the circuits from the i-th on, in order, each
\* with the circuit_name the one before left; the first error leaves at once
RECURSIVE director_reduce_circuits(_, _, _, _, _)
director_reduce_circuits(circuits, i, in_circ, cn, reduced) ==
    IF i > Len(circuits) THEN [r |-> Ok(reduced), circuit_name |-> cn]
    ELSE LET with_circuit(c) ==
                 IF ~c.r.ok THEN c
                 ELSE director_reduce_circuits(circuits, i + 1, in_circ, c.circuit_name,
                                               Append(reduced, c.r.val))
         IN  with_circuit(director_reduce_circuit(circuits[i], in_circ, cn))

\* the reducing director on a program: the circuits between two calls of
\* swap_in_circuit, then the functions. An error leaves at once (the `?`).
director_reduce_program(program, in_circ, cn) ==
    LET with_functions(circuits, functions) ==
            IF ~functions.ok
            THEN [r |-> functions, in_circuit |-> in_circ,
                  circuit_name |-> circuits.circuit_name]
            ELSE [r |-> Ok(Program(circuits.r.val, functions.val)), in_circuit |-> in_circ,
                  circuit_name |-> circuits.circuit_name]
        with_circuits(circuits) ==
            IF ~circuits.r.ok
            THEN [r |-> circuits.r, in_circuit |-> ~in_circ,
                  circuit_name |-> circuits.circuit_name]
            ELSE with_functions(circuits,
                     Collect([i \in 1..Len(program.functions) |->
                                 director_reduce_function(program.functions[i], in_circ,
                                                          circuits.circuit_name)]))
    IN  with_circuits(director_reduce_circuits(program.circuits, 1, ~in_circ, cn, <<>>))

--------------------------------------------------------------------------
(* The inputs *)

BaseTypes == {TyU8, SelfType}
DimLists == SeqsOf(0..MaxDim, 0, MaxDims)

Types1 ==
    BaseTypes
    \cup {TyArray(b, d) : b \in BaseTypes, d \in DimLists}
    \cup {TyTuple(ts) : ts \in SeqsOf(BaseTypes, 0, MaxTuple)}

Types2 ==
    Types1
    \cup {TyArray(t, d) : t \in Types1, d \in DimLists}
    \cup {TyTuple(<<t>>) : t \in Types1}
    \cup {TyTuple(<<t, b>>) : t \in Types1, b \in BaseTypes}
    \cup {TyTuple(<<b, t>>) : t \in Types1, b \in BaseTypes}

TypeItems == {[kind |-> "type", node |-> t] : t \in Types2}

\* the characters of string literals, each with the bytes that spell it
CharTokens ==
    { [character |-> "a", bytes |-> <<"a">>],
      [character |-> "b", bytes |-> <<"b">>],
      [character |-> "LF", bytes |-> <<"\\", "n">>],
      [character |-> "A", bytes |-> <<"\\", "x", "4", "1">>],
      [character |-> "US", bytes |-> <<"\\", "u", "{", "1", "F", "}">>],
      [character |-> "smile", bytes |-> <<"\\", "u", "{", "1", "F", "6", "0", "0", "}">>] }

RECURSIVE Flatten(_)
Flatten(ss) == IF Len(ss) = 0 THEN <<>> ELSE Head(ss) \o Flatten(Tail(ss))

\* the string literal spelt by the tokens ts, its opening quote at column col
StringLiteral(ts, col) ==
    LET body == Flatten([i \in 1..Len(ts) |-> ts[i].bytes])
        content == [i \in 1..(col - 1) |-> " "] \o <<"\"">> \o body \o <<"\"">>
    IN  StringValue([i \in 1..Len(ts) |-> ts[i].character],
                    Span(col, col + Len(body) + 2, content))

QuoteColumns == {1, 3}

Strings == {StringLiteral(ts, col) : ts \in SeqsOf(CharTokens, 0, MaxStr), col \in QuoteColumns}

Atoms == {Identifier("x"), Identifier("Self"), IntegerValue("1")}

\* the expressions of depth one
Exprs1 ==
    Atoms
    \cup {StringLiteral(<<>>, 1), StringLiteral(<<[character |-> "a", bytes |-> <<"a">>]>>, 1)}
    \cup {Binary("Add", a, b, DummySpan) : a, b \in Atoms}
    \cup {Cast(Identifier("x"), t) : t \in {TyU8, SelfType, TyArray(SelfType, <<2>>)}}
    \cup {CircuitInit("Self"), CircuitInit("Bar")}
    \cup {ArrayInit(a, d, DummySpan) : a \in {IntegerValue("1"), Identifier("Self")},
                                       d \in DimLists}

Exprs2 ==
    Exprs1
    \cup Strings
    \cup {ArrayInit(ArrayInit(IntegerValue("1"), d1, DummySpan), d2, DummySpan) :
             d1, d2 \in DimLists}
    \cup {ArrayInline(<<e>>, DummySpan) : e \in Exprs1}

ExpressionItems == {[kind |-> "expression", node |-> e] : e \in Exprs2}

Accesses ==
    { AssigneeArrayIndex(Identifier("i")), AssigneeArrayIndex(Identifier("Self")),
      AssigneeArrayRange(None, Some(Identifier("j"))),
      AssigneeArrayRange(Some(Identifier("Self")), None),
      AssigneeTuple(0), AssigneeMember("f") }

Assignees == {Assignee("x", as) : as \in SeqsOf(Accesses, 0, MaxAccesses)}

AssignSpan == Span(5, 9, NoContent)

Values == {Identifier("y"), Identifier("Self"),
           Binary("Mul", Identifier("y"), IntegerValue("1"), DummySpan)}

Assigns == {Assign(op, a, v, AssignSpan) : op \in AssignOperations, a \in Assignees, v \in Values}

Statements ==
    Assigns
    \cup {Definition(t, e) : t \in Types1, e \in {IntegerValue("1"), Identifier("Self")}}
    \cup {Definition(TyU8, e) : e \in Exprs1}
    \cup {ExpressionStatement(e) : e \in Exprs1}
    \cup {Return(e) : e \in Exprs1}

StatementItems == {[kind |-> "statement", node |-> st] : st \in Statements}

UnitType == TyTuple(<<>>)

\* functions that vary in one place: an input type, the output type, or the body
Functions ==
    {Function("f", <<FunctionInput("a", t)>>, UnitType, <<>>) : t \in Types1}
    \cup {Function("f", <<>>, t, <<>>) : t \in Types1}
    \cup {Function("f", <<>>, UnitType, <<st>>) : st \in Statements}

Members ==
    {CircuitVariable("m", t) : t \in Types1}
    \cup {CircuitConst("c", t, e) : t \in {TyU8, SelfType, TyArray(SelfType, <<2>>)},
                                     e \in {IntegerValue("1"), Identifier("Self")}}
    \cup {CircuitFunction(f) : f \in Functions}

\* members and functions that name Self: as an identifier, as the name of a
\* circuit initialisation, in a signature, as the type of a definition
SelfMembers ==
    {CircuitConst("c", TyU8, e) : e \in {Identifier("Self"), CircuitInit("Self"),
                                         IntegerValue("1")}}
    \cup {CircuitFunction(Function("f", <<>>, UnitType, <<st>>)) :
             st \in {Return(Identifier("Self")), ExpressionStatement(CircuitInit("Self")),
                     Definition(SelfType, IntegerValue("1"))}}
    \cup {CircuitFunction(Function("f", <<FunctionInput("a", SelfType)>>, SelfType, <<>>))}

SelfFunctions ==
    {Function("f", <<>>, UnitType, <<st>>) :
        st \in {Return(Identifier("Self")), ExpressionStatement(CircuitInit("Self"))}}

\* programs of one function, of one circuit with one member, and of two
\* circuits followed by at most one function
Programs ==
    {Program(<<>>, <<f>>) : f \in Functions}
    \cup {Program(<<Circuit("Foo", <<m>>)>>, <<>>) : m \in Members}
    \cup {Program(<<Circuit("Foo", <<m1>>), Circuit("Bar", <<m2>>)>>, fs) :
             m1, m2 \in SelfMembers, fs \in {<<>>} \cup {<<f>> : f \in SelfFunctions}}

ProgramItems == {[kind |-> "program", node |-> p] : p \in Programs}

--------------------------------------------------------------------------
(* The canonicalizer as a state machine *)

\* the node the next pass works on: the item, or the output of the last pass
Current == IF Len(results) = 0 THEN item.node ELSE results[Len(results)].val

CanRun ==
    IF Len(results) = 0 THEN TRUE
    ELSE Len(results) < MaxPasses /\ results[Len(results)].ok

Record(input, r) ==
    [input |-> input, in_circuit |-> in_circuit, ok |-> r.ok, val |-> r.val, err |-> r.err]

InitCanon ==
    /\ in_circuit = FALSE
    /\ circuit_name = None
    /\ item \in TypeItems \cup ExpressionItems \cup StatementItems \cup ProgramItems
    /\ results = <<>>
    /\ tokens = <<>>
    /\ pos = 1
    /\ disallow_circuit_construction = FALSE
    /\ parsed = None
    /\ StagesIdle

\* ReconstructingReducer::swap_in_circuit
swap_in_circuit ==
    /\ Len(results) = 0
    /\ item.kind # "program"
    /\ in_circuit' = ~in_circuit
    /\ UNCHANGED <<circuit_name, item, results, parser_vars, stage_vars>>

\* reduce a type in the current context
ReduceType ==
    /\ item.kind = "type"
    /\ CanRun
    /\ results' = Append(results, Record(Current, director_reduce_type(Current, in_circuit)))
    /\ UNCHANGED <<in_circuit, circuit_name, item, parser_vars, stage_vars>>

\* reduce an expression in the current context
ReduceExpression ==
    /\ item.kind = "expression"
    /\ CanRun
    /\ results' = Append(results, Record(Current, director_reduce_expression(Current, in_circuit)))
    /\ UNCHANGED <<in_circuit, circuit_name, item, parser_vars, stage_vars>>

\* reduce a statement in the current context
ReduceStatement ==
    /\ item.kind = "statement"
    /\ CanRun
    /\ results' = Append(results,
           Record(Current, director_reduce_statement(Current, in_circuit, circuit_name)))
    /\ UNCHANGED <<in_circuit, circuit_name, item, parser_vars, stage_vars>>

\* the whole pass on a program, by a canonicalizer in its default state
ReduceProgram ==
    /\ item.kind = "program"
    /\ CanRun
    /\ ~in_circuit
    /\ LET done(d) ==
               /\ results' = Append(results, Record(Current, d.r))
               /\ in_circuit' = d.in_circuit
               /\ circuit_name' = d.circuit_name
       IN  done(director_reduce_program(Current, in_circuit, circuit_name))
    /\ UNCHANGED <<item, parser_vars, stage_vars>>

NextCanon ==
    \/ swap_in_circuit
    \/ ReduceType
    \/ ReduceExpression
    \/ ReduceStatement
    \/ ReduceProgram

SpecCanon == InitCanon /\ [][NextCanon]_vars

--------------------------------------------------------------------------
(* The expression parser *)

\* leo_span::Span of the parser: a byte range
PSpan(lo, hi) == [lo |-> lo, hi |-> hi]

\* Span + Span: the smallest span covering both
SpanAdd(a, b) ==
    PSpan(IF a.lo <= b.lo THEN a.lo ELSE b.lo, IF a.hi >= b.hi THEN a.hi ELSE b.hi)

SpannedToken(token, text, span) == [token |-> token, text |-> text, span |-> span]

\* the token the context yields once the stream is used up
EofToken == SpannedToken("Eof", "", PSpan(0, 0))

\* the parser's mutable state: the cursor and the flag
PState(position, dcc) == [pos |-> position, dcc |-> dcc]

\* ParserContext.token
CurrentToken(toks, p) == IF p.pos <= Len(toks) THEN toks[p.pos] ELSE EofToken

\* ParserContext.prev_token
PrevToken(toks, p) ==
    IF p.pos >= 2 /\ p.pos - 1 <= Len(toks) THEN toks[p.pos - 1] ELSE EofToken

\* ParserContext::bump
bump(toks, p) == IF p.pos <= Len(toks) THEN [p EXCEPT !.pos = @ + 1] ELSE p

\* ParserContext::check
check(toks, p, token) == CurrentToken(toks, p).token = token

\* ParserContext::eat_any, as the test it makes (the caller bumps)
check_any(toks, p, tks) == CurrentToken(toks, p).token \in tks

POk(val, p) == [ok |-> TRUE, val |-> val, p |-> p, err |-> "none", err_span |-> None]
PErr(e, p) == [ok |-> FALSE, val |-> None, p |-> p, err |-> e, err_span |-> None]
\* an error with the span it reports
PErrAt(e, span, p) == [ok |-> FALSE, val |-> None, p |-> p, err |-> e, err_span |-> span]

PIdentifier(name, span) == [k |-> "Identifier", name |-> name, span |-> span]
PValue(kind, value, span) == [k |-> kind, value |-> value, span |-> span]
Unary(op, inner, span) == [k |-> "Unary", op |-> op, inner |-> inner, span |-> span]
Ternary(condition, if_true, if_false, span) ==
    [k |-> "Ternary", condition |-> condition, if_true |-> if_true,
     if_false |-> if_false, span |-> span]
Call(function, arguments, span) ==
    [k |-> "Call", function |-> function, arguments |-> arguments, span |-> span]

\* INT_TYPES
INT_TYPES ==
    {"I8", "I16", "I32", "I64", "I128", "U8", "U16", "U32", "U64", "U128", "Field", "Group"}

\* TYPE_TOKENS: the keywords that name a type
TYPE_TOKENS ==
    {"Address", "Bool", "Char", "Field", "Group",
     "I8", "I16", "I32", "I64", "I128", "U8", "U16", "U32", "U64", "U128"}

\* the match of eat_bin_op: the operation a token stands for
BinaryOperationOf(token) ==
    CASE token = "Eq" -> "Eq"
      [] token = "NotEq" -> "Ne"
      [] token = "Lt" -> "Lt"
      [] token = "LtEq" -> "Le"
      [] token = "Gt" -> "Gt"
      [] token = "GtEq" -> "Ge"
      [] token = "Add" -> "Add"
      [] token = "Minus" -> "Sub"
      [] token = "Mul" -> "Mul"
      [] token = "Div" -> "Div"
      [] token = "Or" -> "Or"
      [] token = "And" -> "And"
      [] token = "Exp" -> "Pow"

\* ParserContext::bin_expr
bin_expr(left, right, op) == Binary(op, left, right, SpanAdd(left.span, right.span))

\* A plausible slip: only an overlap of the two spans is refused
assert_no_whitespace_lax(left_span, right_span) ==
    IF left_span.hi > right_span.lo
    THEN [ok |-> FALSE, err |-> "unexpected_whitespace",
          span |-> PSpan(left_span.hi, right_span.lo)]
    ELSE [ok |-> TRUE, err |-> "none", span |-> PSpan(0, 0)]

\* assert_no_whitespace
assert_no_whitespace(left_span, right_span) ==
    IF left_span.hi # right_span.lo
    THEN [ok |-> FALSE, err |-> "unexpected_whitespace",
          span |-> PSpan(left_span.hi, right_span.lo)]
    ELSE [ok |-> TRUE, err |-> "none", span |-> PSpan(0, 0)]

RECURSIVE parse_expression(_, _)
RECURSIVE parse_conditional_expression(_, _)
RECURSIVE parse_bin_expr(_, _, _, _)
RECURSIVE bin_expr_loop(_, _, _, _, _)
RECURSIVE call_parser(_, _, _)
RECURSIVE parse_disjunctive_expression(_, _)
RECURSIVE parse_conjunctive_expression(_, _)
RECURSIVE parse_equality_expression(_, _)
RECURSIVE parse_ordering_expression(_, _)
RECURSIVE parse_additive_expression(_, _)
RECURSIVE parse_multiplicative_expression(_, _)
RECURSIVE parse_exponential_expression(_, _)
RECURSIVE parse_unary_expression(_, _)
RECURSIVE unary_ops(_, _, _)
RECURSIVE parse_postfix_expression(_, _)
RECURSIVE postfix_loop(_, _, _)
RECURSIVE parse_paren_comma_list(_, _)
RECURSIVE comma_list_loop(_, _, _, _)
RECURSIVE parse_tuple_expression(_, _)
RECURSIVE parse_primary_expression(_, _)

\* a parse_expression that clears the flag and does not restore it
parse_expression_cleared(toks, p) ==
    parse_conditional_expression(toks, [p EXCEPT !.dcc = FALSE])

\* ParserContext::parse_expression
parse_expression(toks, p) ==
    LET prior_fuzzy_state == p.dcc
        restore(result) == [result EXCEPT !.p.dcc = prior_fuzzy_state]
    IN  restore(parse_conditional_expression(toks, [p EXCEPT !.dcc = FALSE]))

\* ParserContext::parse_conditional_expression
parse_conditional_expression(toks, p) ==
    LET ternary(expr, if_true, if_false) ==
            IF ~if_false.ok THEN if_false
            ELSE POk(Ternary(expr.val, if_true.val, if_false.val,
                             SpanAdd(expr.val.span, if_false.val.span)),
                     if_false.p)
        after_question(expr, if_true) ==
            IF ~if_true.ok THEN if_true
            ELSE IF ~check(toks, if_true.p, "Colon") THEN PErr("unexpected", if_true.p)
            ELSE ternary(expr, if_true,
                         parse_conditional_expression(toks, bump(toks, if_true.p)))
        after_condition(expr) ==
            IF ~expr.ok THEN expr
            ELSE IF ~check(toks, expr.p, "Question") THEN expr
            ELSE after_question(expr, parse_expression(toks, bump(toks, expr.p)))
    IN  after_condition(parse_disjunctive_expression(toks, p))

\* the parser `f` handed to parse_bin_expr
call_parser(f, toks, p) ==
    CASE f = "parse_conjunctive_expression" -> parse_conjunctive_expression(toks, p)
      [] f = "parse_equality_expression" -> parse_equality_expression(toks, p)
      [] f = "parse_additive_expression" -> parse_additive_expression(toks, p)
      [] f = "parse_multiplicative_expression" -> parse_multiplicative_expression(toks, p)
      [] f = "parse_exponential_expression" -> parse_exponential_expression(toks, p)

\* the while loop of parse_bin_expr
bin_expr_loop(toks, p, tks, f, expr) ==
    IF ~check_any(toks, p, tks) THEN POk(expr, p)
    ELSE
        LET op == BinaryOperationOf(CurrentToken(toks, p).token)
            with_right(right) ==
                IF ~right.ok THEN right
                ELSE bin_expr_loop(toks, right.p, tks, f, bin_expr(expr, right.val, op))
        IN  with_right(call_parser(f, toks, bump(toks, p)))

\* a helper that recurses on the right operand: the chain nests to the right
RECURSIVE parse_bin_expr_right(_, _, _, _)
parse_bin_expr_right(toks, p, tks, f) ==
    LET with_right(expr, op, right) ==
            IF ~right.ok THEN right
            ELSE POk(bin_expr(expr.val, right.val, op), right.p)
        with_left(expr) ==
            IF ~expr.ok THEN expr
            ELSE IF ~check_any(toks, expr.p, tks) THEN expr
            ELSE with_right(expr, BinaryOperationOf(CurrentToken(toks, expr.p).token),
                            parse_bin_expr_right(toks, bump(toks, expr.p), tks, f))
    IN  with_left(call_parser(f, toks, p))

\* ParserContext::parse_bin_expr
parse_bin_expr(toks, p, tks, f) ==
    LET with_left(expr) ==
            IF ~expr.ok THEN expr ELSE bin_expr_loop(toks, expr.p, tks, f, expr.val)
    IN  with_left(call_parser(f, toks, p))

\* ParserContext::parse_disjunctive_expression
parse_disjunctive_expression(toks, p) ==
    parse_bin_expr(toks, p, {"Or"}, "parse_conjunctive_expression")

\* ParserContext::parse_conjunctive_expression
parse_conjunctive_expression(toks, p) ==
    parse_bin_expr(toks, p, {"And"}, "parse_equality_expression")

\* A plausible slip: equality parsed by the loop the other levels use
RECURSIVE equality_loop(_, _, _)
equality_loop(toks, p, expr) ==
    IF ~check_any(toks, p, {"Eq", "NotEq"}) THEN POk(expr, p)
    ELSE
        LET op == BinaryOperationOf(CurrentToken(toks, p).token)
            with_right(right) ==
                IF ~right.ok THEN right
                ELSE equality_loop(toks, right.p, bin_expr(expr, right.val, op))
        IN  with_right(parse_ordering_expression(toks, bump(toks, p)))

parse_equality_expression_looped(toks, p) ==
    LET with_left(expr) ==
            IF ~expr.ok THEN expr ELSE equality_loop(toks, expr.p, expr.val)
    IN  with_left(parse_ordering_expression(toks, p))

\* ParserContext::parse_equality_expression
parse_equality_expression(toks, p) ==
    LET with_right(expr, right) ==
            IF ~right.ok THEN right
            ELSE POk(bin_expr(expr.val, right.val,
                              BinaryOperationOf(CurrentToken(toks, expr.p).token)),
                     right.p)
        with_left(expr) ==
            IF ~expr.ok THEN expr
            ELSE IF ~check_any(toks, expr.p, {"Eq", "NotEq"}) THEN expr
            ELSE with_right(expr, parse_ordering_expression(toks, bump(toks, expr.p)))
    IN  with_left(parse_ordering_expression(toks, p))

\* ParserContext::parse_ordering_expression
parse_ordering_expression(toks, p) ==
    parse_bin_expr(toks, p, {"Lt", "LtEq", "Gt", "GtEq"}, "parse_additive_expression")


\* ParserContext::parse_additive_expression
parse_additive_expression(toks, p) ==
    parse_bin_expr(toks, p, {"Add", "Minus"}, "parse_multiplicative_expression")

\* A plausible slip: the multiplicative level takes the additive operators too
parse_multiplicative_expression_merged(toks, p) ==
    parse_bin_expr(toks, p, {"Mul", "Div", "Add", "Minus"}, "parse_exponential_expression")

\* ParserContext::parse_multiplicative_expression
parse_multiplicative_expression(toks, p) ==
    parse_bin_expr(toks, p, {"Mul", "Div"}, "parse_exponential_expression")

\* A plausible slip: exponentiation parsed by a loop, as the levels below it are
RECURSIVE exponential_loop(_, _, _)
exponential_loop(toks, p, expr) ==
    IF ~check_any(toks, p, {"Exp"}) THEN POk(expr, p)
    ELSE
        LET with_right(right) ==
                IF ~right.ok THEN right
                ELSE exponential_loop(toks, right.p, bin_expr(expr, right.val, "Pow"))
        IN  with_right(parse_unary_expression(toks, bump(toks, p)))

parse_exponential_expression_left(toks, p) ==
    LET with_left(expr) ==
            IF ~expr.ok THEN expr ELSE exponential_loop(toks, expr.p, expr.val)
    IN  with_left(parse_unary_expression(toks, p))

\* ParserContext::parse_exponential_expression
parse_exponential_expression(toks, p) ==
    LET with_right(expr, right) ==
            IF ~right.ok THEN right
            ELSE POk(bin_expr(expr.val, right.val,
                              BinaryOperationOf(CurrentToken(toks, expr.p).token)),
                     right.p)
        with_left(expr) ==
            IF ~expr.ok THEN expr
            ELSE IF ~check_any(toks, expr.p, {"Exp"}) THEN expr
            ELSE with_right(expr, parse_exponential_expression(toks, bump(toks, expr.p)))
    IN  with_left(parse_unary_expression(toks, p))

\* the prefix operators applied in the order written: the first one innermost
RECURSIVE apply_unary_ops_forward(_, _, _)
apply_unary_ops_forward(ops, n, inner) ==
    IF n = 0 THEN inner
    ELSE apply_unary_ops_forward(Tail(ops), n - 1,
                                 Unary(ops[1].op, inner, SpanAdd(ops[1].span, inner.span)))

\* the last n prefix operators of ops, applied innermost first
RECURSIVE apply_unary_ops(_, _, _)
apply_unary_ops(ops, n, inner) ==
    IF n = 0 THEN inner
    ELSE apply_unary_ops(ops, n - 1,
                         Unary(ops[n].op, inner, SpanAdd(ops[n].span, inner.span)))

\* the first loop of parse_unary_expression: the prefix operators pushed on ops
unary_ops(toks, p, ops) ==
    IF ~check_any(toks, p, {"Not", "Minus"}) THEN [ops |-> ops, p |-> p]
    ELSE
        LET operation == IF CurrentToken(toks, p).token = "Not" THEN "Not" ELSE "Negate"
        IN  unary_ops(toks, bump(toks, p),
                      Append(ops, [op |-> operation, span |-> CurrentToken(toks, p).span]))

\* ParserContext::parse_unary_expression
parse_unary_expression(toks, p) ==
    LET wrap(ops, inner) ==
            IF ~inner.ok THEN inner
            ELSE POk(apply_unary_ops(ops, Len(ops), inner.val), inner.p)
        with_ops(collected) ==
            wrap(collected.ops, parse_postfix_expression(toks, collected.p))
    IN  with_ops(unary_ops(toks, p, <<>>))

\* the loop of parse_postfix_expression
postfix_loop(toks, p, expr) ==
    IF check(toks, p, "Dot") THEN PErr("unexpected_str", bump(toks, p))
    ELSE IF ~check(toks, p, "LeftParen") THEN POk(expr, p)
    ELSE
        LET call(list) ==
                IF ~list.ok THEN list
                ELSE postfix_loop(toks, list.p,
                                  Call(expr, list.val.list, SpanAdd(expr.span, list.val.span)))
        IN  call(parse_paren_comma_list(toks, p))

\* ParserContext::parse_postfix_expression
parse_postfix_expression(toks, p) ==
    LET with_primary(expr) ==
            IF ~expr.ok THEN expr ELSE postfix_loop(toks, expr.p, expr.val)
    IN  with_primary(parse_primary_expression(toks, p))

\* the loop of the list parser: elements parsed by parse_expression, separated
\* by commas, up to the closing parenthesis
comma_list_loop(toks, p, list, trailing) ==
    IF check(toks, p, "RightParen") THEN POk([list |-> list, trailing |-> trailing], p)
    ELSE
        LET push(elem) ==
                IF ~elem.ok THEN elem
                ELSE IF check(toks, elem.p, "Comma")
                    THEN comma_list_loop(toks, bump(toks, elem.p), Append(list, elem.val), TRUE)
                ELSE POk([list |-> Append(list, elem.val), trailing |-> FALSE], elem.p)
        IN  push(parse_expression(toks, p))

\* ParserContext::parse_paren_comma_list with parse_expression for the elements:
\* the list, whether a comma trails it, and the span of the parentheses
parse_paren_comma_list(toks, p) ==
    IF ~check(toks, p, "LeftParen") THEN PErr("unexpected", p)
    ELSE
        LET open_span == CurrentToken(toks, p).span
            close(body) ==
                IF ~body.ok THEN body
                ELSE IF ~check(toks, body.p, "RightParen") THEN PErr("unexpected", body.p)
                ELSE POk([list |-> body.val.list, trailing |-> body.val.trailing,
                          span |-> SpanAdd(open_span, CurrentToken(toks, body.p).span)],
                         bump(toks, body.p))
        IN  close(comma_list_loop(toks, bump(toks, p), <<>>, FALSE))

\* ParserContext::eat_group_partial, as the test it makes: the tokens ahead
\* spell `(` coordinate `,` coordinate `)` `group`
is_group_partial(toks, p) ==
    /\ check(toks, p, "LeftParen")
    /\ check(toks, [p EXCEPT !.pos = @ + 2], "Comma")
    /\ check(toks, [p EXCEPT !.pos = @ + 4], "RightParen")
    /\ check(toks, [p EXCEPT !.pos = @ + 5], "Group")

\* ParserContext::parse_tuple_expression
parse_tuple_expression(toks, p) ==
    IF is_group_partial(toks, p) THEN
        POk(PValue("GroupTuple", CurrentToken(toks, [p EXCEPT !.pos = @ + 1]).text,
                   SpanAdd(CurrentToken(toks, p).span,
                           CurrentToken(toks, [p EXCEPT !.pos = @ + 5]).span)),
            [p EXCEPT !.pos = @ + 6])
    ELSE
        LET single_element(r) ==
                IF ~r.ok THEN r
                ELSE IF ~r.val.trailing /\ Len(r.val.list) = 1 THEN POk(r.val.list[1], r.p)
                ELSE PErr("unexpected", r.p)
        IN  single_element(parse_paren_comma_list(toks, p))

\* ParserContext::parse_primary_expression
parse_primary_expression(toks, p) ==
    IF check(toks, p, "LeftParen") THEN parse_tuple_expression(toks, p)
    ELSE
        LET token == CurrentToken(toks, p).token
            text == CurrentToken(toks, p).text
            span == CurrentToken(toks, p).span
            q == bump(toks, p)
        IN  IF token = "Int" THEN
                LET suffix_span == CurrentToken(toks, q).span
                    full_span == SpanAdd(span, suffix_span)
                    suffix == CurrentToken(toks, q).token
                    ws == assert_no_whitespace(span, suffix_span)
                IN  IF suffix \notin INT_TYPES
                        THEN PErrAt("implicit_values_not_allowed", span, q)
                    ELSE IF ~ws.ok THEN PErrAt(ws.err, ws.span, bump(toks, q))
                    ELSE IF suffix = "Field"
                        THEN POk(PValue("Field", text, full_span), bump(toks, q))
                    ELSE IF suffix = "Group"
                        THEN POk(PValue("GroupSingle", text, full_span), bump(toks, q))
                    ELSE POk([k |-> "Integer", int_ty |-> suffix, value |-> text,
                              span |-> full_span], bump(toks, q))
            ELSE IF token = "True" THEN POk(PValue("Boolean", "true", span), q)
            ELSE IF token = "False" THEN POk(PValue("Boolean", "false", span), q)
            ELSE IF token = "AddressLit" THEN POk(PValue("Address", text, span), q)
            ELSE IF token = "CharLit" THEN POk(PValue("Char", text, span), q)
            ELSE IF token = "StringLit" THEN POk(PValue("String", text, span), q)
            ELSE IF token = "Ident" THEN POk(PIdentifier(text, span), q)
            ELSE IF token = "Input" THEN POk(PIdentifier("input", span), q)
            ELSE IF token \in TYPE_TOKENS THEN POk(PIdentifier(text, span), q)
            ELSE PErr("unexpected_str", q)

--------------------------------------------------------------------------
(* The sources handed to the parser *)

Lexeme(token, text, width) == [token |-> token, text |-> text, width |-> width]

InfixLexemes ==
    { Lexeme("Or", "||", 2), Lexeme("And", "&&", 2), Lexeme("Eq", "==", 2),
      Lexeme("NotEq", "!=", 2), Lexeme("Lt", "<", 1), Lexeme("LtEq", "<=", 2),
      Lexeme("Gt", ">", 1), Lexeme("GtEq", ">=", 2), Lexeme("Add", "+", 1),
      Lexeme("Minus", "-", 1), Lexeme("Mul", "*", 1), Lexeme("Div", "/", 1),
      Lexeme("Exp", "**", 2), Lexeme("Question", "?", 1), Lexeme("Colon", ":", 1) }

PrefixLexemes == {Lexeme("Not", "!", 1), Lexeme("Minus", "-", 1)}

LeftParen == Lexeme("LeftParen", "(", 1)
RightParen == Lexeme("RightParen", ")", 1)

OperandNames == <<"a", "b", "c", "d", "e", "f", "g", "h">>
Operand(i) == Lexeme("Ident", OperandNames[i], 1)

\* the spanned tokens of the lexemes, one blank between two lexemes
RECURSIVE Tokenize(_, _)
Tokenize(lexemes, lo) ==
    IF Len(lexemes) = 0 THEN <<>>
    ELSE <<SpannedToken(Head(lexemes).token, Head(lexemes).text,
                        PSpan(lo, lo + Head(lexemes).width))>>
         \o Tokenize(Tail(lexemes), lo + Head(lexemes).width + 1)

\* operand, operator, operand, ..: n operators between n + 1 operands
Interleave(ops) ==
    [i \in 1..(2 * Len(ops) + 1) |-> IF i % 2 = 1 THEN Operand((i + 1) \div 2) ELSE ops[i \div 2]]

\* one operator of each level, the minus sign, and the marks of the ternary
MixLexemes ==
    {l \in InfixLexemes :
        l.token \in {"Or", "And", "Eq", "Lt", "Add", "Minus", "Mul", "Exp", "Question", "Colon"}}

FlatSources ==
    {Interleave(ops) : ops \in SeqsOf(MixLexemes, 0, MaxOps)}
    \cup {Interleave(ops) : ops \in SeqsOf(InfixLexemes, 1, 2)}

\* a ** b ** c ..: chains of one operator
ChainSources ==
    {Interleave([i \in 1..n |-> op]) : n \in 1..MaxChain, op \in InfixLexemes}

Prefixes == SeqsOf(PrefixLexemes, 0, MaxPrefix)

PrefixSources ==
    {pre \o <<Operand(1)>> : pre \in Prefixes}
    \cup {pre1 \o <<Operand(1), op>> \o pre2 \o <<Operand(2)>> :
             pre1 \in Prefixes, op \in InfixLexemes, pre2 \in Prefixes}

ParenSources ==
    {<<LeftParen, Operand(1), op1, Operand(2), RightParen, op2, Operand(3)>> :
        op1, op2 \in InfixLexemes}
    \cup {<<Operand(1), op1, LeftParen, Operand(2), op2, Operand(3), RightParen>> :
             op1, op2 \in InfixLexemes}

\* an integer literal, `gap` columns, a type suffix, and what follows them
LiteralText == "42"
IntLiteral == SpannedToken("Int", LiteralText, PSpan(0, 2))
Suffixed(gap, suffix, rest) ==
    <<IntLiteral, SpannedToken(suffix, suffix, PSpan(2 + gap, 4 + gap))>>
    \o Tokenize(rest, 5 + gap)

\* integer literals: bare, followed by a suffix at 0..MaxGap columns, and
\* followed by a token that is no suffix
LiteralTokens ==
    {<<IntLiteral>>}
    \cup {Suffixed(gap, suffix, rest) :
             gap \in 0..MaxGap, suffix \in INT_TYPES,
             rest \in {<<>>, <<Lexeme("Add", "+", 1), Operand(1)>>}}
    \cup {<<IntLiteral>> \o Tokenize(<<l>>, 2 + gap) :
             gap \in 0..MaxGap, l \in {Operand(1), Lexeme("Add", "+", 1), Lexeme("Bool", "bool", 4)}}

Comma == Lexeme("Comma", ",", 1)

\* ( e1, .., en ) with 0..MaxElems elements, with and without a trailing comma,
\* and the group literal form ( x, y )group
TupleSources ==
    {<<LeftParen>> \o [i \in 1..(2 * n - 1) |-> IF i % 2 = 1 THEN Operand((i + 1) \div 2) ELSE Comma]
        \o trail \o <<RightParen>> :
        n \in 1..MaxElems, trail \in {<<>>, <<Comma>>}}
    \cup {<<LeftParen, RightParen>>,
          <<LeftParen, Operand(1), Comma, Operand(2), RightParen, Lexeme("Group", "group", 5)>>}

\* calls a(..), with a ternary or a parenthesised or a missing argument, and
\* calls that are cut short
CallSources ==
    {<<Operand(1), LeftParen>> \o args \o close :
        args \in {<<>>, <<Operand(2)>>, <<Operand(2), Comma, Operand(3)>>,
                  <<Operand(2), Lexeme("Question", "?", 1), Operand(3),
                    Lexeme("Colon", ":", 1), Operand(4)>>,
                  <<LeftParen, Operand(2), RightParen>>,
                  <<Operand(2), LeftParen, Operand(3), RightParen>>,
                  <<Operand(2), Lexeme("Add", "+", 1)>>},
        close \in {<<>>, <<RightParen>>, <<RightParen, Lexeme("Add", "+", 1), Operand(5)>>}}

Sources ==
    FlatSources \cup ChainSources \cup PrefixSources \cup ParenSources \cup TupleSources
    \cup CallSources

--------------------------------------------------------------------------
(* The parser as a state machine *)

InitParse ==
    /\ in_circuit = FALSE
    /\ circuit_name = None
    /\ item = None
    /\ results = <<>>
    /\ tokens \in {Tokenize(src, 0) : src \in Sources} \cup LiteralTokens
    /\ pos = 1
    /\ disallow_circuit_construction = FALSE
    /\ parsed = None
    /\ StagesIdle

Parsed(entry, r) ==
    [k |-> "Parsed", entry |-> entry, ok |-> r.ok, val |-> r.val, err |-> r.err,
     err_span |-> r.err_span, prior_flag |-> disallow_circuit_construction]

\* the statement parser sets the flag before it parses a condition
DisallowCircuitConstruction ==
    /\ parsed = None
    /\ ~disallow_circuit_construction
    /\ disallow_circuit_construction' = TRUE
    /\ UNCHANGED <<tokens, pos, parsed, canon_vars, stage_vars>>

\* a call of parse_expression at the start of the tokens
ParseExpression ==
    /\ parsed = None
    /\ LET r == parse_expression(tokens, PState(pos, disallow_circuit_construction))
       IN  /\ parsed' = Parsed("parse_expression", r)
           /\ pos' = r.p.pos
           /\ disallow_circuit_construction' = r.p.dcc
    /\ UNCHANGED <<tokens, canon_vars, stage_vars>>

\* a call of parse_conditional_expression at the start of the tokens
ParseConditionalExpression ==
    /\ parsed = None
    /\ LET r == parse_conditional_expression(tokens, PState(pos, disallow_circuit_construction))
       IN  /\ parsed' = Parsed("parse_conditional_expression", r)
           /\ pos' = r.p.pos
           /\ disallow_circuit_construction' = r.p.dcc
    /\ UNCHANGED <<tokens, canon_vars, stage_vars>>

NextParse ==
    \/ DisallowCircuitConstruction
    \/ ParseExpression
    \/ ParseConditionalExpression

SpecParse == InitParse /\ [][NextParse]_vars

--------------------------------------------------------------------------
(* The IR emitter: ir_emitter/emitter.rs, emit_expressions.rs,            *)
(* emit_statements.rs. A call into the emitter returns                    *)
(* [panic, e, operand]: the emitter e it leaves, the operand it returns,  *)
(* and panic = "none" unless the call ended in a Rust panic (unwrap on     *)
(* None, unimplemented!, todo!, unreachable!), which aborts the pass.     *)

\* struct Reg
Reg(register, sym) == [register |-> register, symbol |-> sym]

\* impl PartialEq<Symbol> for Reg
RegEq(reg, name) == reg.symbol = Some(name)

\* struct IrEmitter: registers and buffer (the symbol table, the parent and
\* the constants are not read by the functions modelled here)
IrEmitter(regs, buf) == [registers |-> regs, buffer |-> buf]

\* Register::Locator(n)
Locator(n) == [k |-> "Locator", n |-> n]

\* Operand::Register, Operand::Value
OperandRegister(register) == [k |-> "Register", register |-> register]
OperandValue(value) == [k |-> "Value", value |-> value]

Emitted(e, operand) == [panic |-> "none", e |-> e, operand |-> operand]
Panicked(e, why) == [panic |-> why, e |-> e, operand |-> None]

\* IrEmitter::emit
emit(e, instruction) == [e EXCEPT !.buffer = Append(@, instruction)]

\* IrEmitter::spawn_reg: the new register is Locator(registers.len())
spawn_reg(e, sym) ==
    [e |-> [e EXCEPT !.registers = Append(@, Reg(Locator(Len(e.registers)), sym))],
     register |-> Locator(Len(e.registers))]

\* A plausible slip: the register taken first is the one released
drop_reg_front(e) ==
    IF Len(e.registers) = 0 THEN Panicked(e, "unwrap")
    ELSE Emitted([e EXCEPT !.registers = Tail(@)], None)

\* IrEmitter::drop_reg: registers.pop().unwrap()
drop_reg(e) ==
    IF Len(e.registers) = 0 THEN Panicked(e, "unwrap")
    ELSE Emitted([e EXCEPT !.registers = SubSeq(@, 1, Len(@) - 1)], None)

\* IrEmitter::find_register: registers.iter().find(|i| **i == input.name).unwrap()
find_register(e, input) ==
    LET hits == {i \in 1..Len(e.registers) : RegEq(e.registers[i], input.name)}
    IN  IF hits = {} THEN Panicked(e, "unwrap")
        ELSE Emitted(e, OperandRegister(
                 e.registers[CHOOSE i \in hits : \A j \in hits : i <= j].register))

\* Value::Literal(Literal::X(X::parse(v).unwrap().1))
Literal(type, text) == [k |-> "Literal", type |-> type, text |-> text]

\* IrEmitter::get_value
get_value(e, input) ==
    IF input.k = "Char" THEN Panicked(e, "unimplemented")
    ELSE IF input.k = "Integer" THEN Emitted(e, OperandValue(Literal(input.int_ty, input.value)))
    ELSE IF input.k = "GroupSingle" THEN Emitted(e, OperandValue(Literal("Group", input.value)))
    ELSE Emitted(e, OperandValue(Literal(input.k, input.value)))

\* a match that lowers Ge and Le to the strict comparisons
BinaryInstruction_strict(op) ==
    CASE op \in {"Ge", "Gt"} -> "GreaterThan"
      [] op \in {"Le", "Lt"} -> "LessThan"
      [] op = "Eq" -> "Equal"
      [] op = "Ne" -> "NotEqual"
      [] OTHER -> op

\* the match of emit_binary: leo_ast::BinaryOperation -> Instruction
BinaryInstruction(op) ==
    CASE op = "Add" -> "Add"
      [] op = "Sub" -> "Sub"
      [] op = "Mul" -> "Mul"
      [] op = "Div" -> "Div"
      [] op = "Pow" -> "Pow"
      [] op = "Or" -> "Or"
      [] op = "And" -> "And"
      [] op = "Eq" -> "Equal"
      [] op = "Ne" -> "NotEqual"
      [] op = "Ge" -> "GreaterThanOrEqual"
      [] op = "Gt" -> "GreaterThan"
      [] op = "Le" -> "LessThanOrEqual"
      [] op = "Lt" -> "LessThan"

\* the match of emit_unary: leo_ast::UnaryOperation -> Instruction
UnaryInstruction(op) == IF op = "Not" THEN "Not" ELSE "Neg"

\* Instruction::X(X { operation: BinaryOperation { first, second, destination } })
BinaryOperation(opcode, first, second, destination) ==
    [opcode |-> opcode, first |-> first, second |-> second, destination |-> destination]

\* Instruction::X(X { operation: UnaryOperation { first, destination } })
UnaryOperation(opcode, first, destination) ==
    [opcode |-> opcode, first |-> first, destination |-> destination]

ValueKinds == {"Address", "Boolean", "Char", "Field", "GroupSingle", "GroupTuple",
               "Integer", "String"}

RECURSIVE emit_expr(_, _)

\* IrEmitter::emit_binary
emit_binary(e, expr) ==
    LET spawned(first, second, s) ==
            Emitted(emit(s.e, BinaryOperation(BinaryInstruction(expr.op), first.operand,
                                              second.operand, s.register)),
                    OperandRegister(s.register))
        with_second(first, second) ==
            IF second.panic # "none" THEN second
            ELSE spawned(first, second, spawn_reg(second.e, None))
        with_first(first) ==
            IF first.panic # "none" THEN first
            ELSE with_second(first, emit_expr(first.e, expr.right))
    IN  with_first(emit_expr(e, expr.left))

\* IrEmitter::emit_unary
emit_unary(e, expr) ==
    LET spawned(first, s) ==
            Emitted(emit(s.e, UnaryOperation(UnaryInstruction(expr.op), first.operand,
                                             s.register)),
                    OperandRegister(s.register))
        with_first(first) ==
            IF first.panic # "none" THEN first
            ELSE spawned(first, spawn_reg(first.e, None))
    IN  with_first(emit_expr(e, expr.inner))

\* IrEmitter::emit_ternary
emit_ternary(e, expr) == Panicked(e, "unimplemented")

\* IrEmitter::emit_expr
emit_expr(e, expr) ==
    IF expr.k = "Identifier" THEN find_register(e, expr)
    ELSE IF expr.k \in ValueKinds THEN get_value(e, expr)
    ELSE IF expr.k = "Binary" THEN emit_binary(e, expr)
    ELSE IF expr.k = "Unary" THEN emit_unary(e, expr)
    ELSE IF expr.k = "Ternary" THEN emit_ternary(e, expr)
    ELSE IF expr.k = "Call" THEN Panicked(e, "unimplemented")
    ELSE Panicked(e, "unreachable")

\* Statement::Conditional, Statement::Iteration, Statement::Console, Statement::Block
ConditionalStatement(condition, block) ==
    [k |-> "Conditional", condition |-> condition, block |-> block]
IterationStatement(variable, start, stop, block) ==
    [k |-> "Iteration", variable |-> variable, start |-> start, stop |-> stop,
     block |-> block]
ConsoleStatement(expression) == [k |-> "Console", expression |-> expression]
Block(statements) == [k |-> "Block", statements |-> statements]

\* IrEmitter::visit_expression_statement
visit_expression_statement(e, input) ==
    LET with_expr(r) == IF r.panic # "none" THEN r ELSE drop_reg(r.e)
    IN  with_expr(emit_expr(e, input.expression))

\* IrEmitter::visit_conditional, visit_iteration, visit_console
visit_conditional(e, input) == Panicked(e, "unimplemented")
visit_iteration(e, input) == Panicked(e, "unimplemented")
visit_console(e, input) == Panicked(e, "unimplemented")

\* IrEmitter::visit_return, visit_definition, visit_assign
visit_return(e, input) == Panicked(e, "todo")
visit_definition(e, input) == Panicked(e, "todo")
visit_assign(e, input) == Panicked(e, "todo")

RECURSIVE visit_statement(_, _)
RECURSIVE visit_statements(_, _, _)

\* the loop of visit_block over input.statements, from statement i on
visit_statements(e, statements, i) ==
    IF i > Len(statements) THEN Emitted(e, None)
    ELSE LET with_statement(r) ==
                 IF r.panic # "none" THEN r ELSE visit_statements(r.e, statements, i + 1)
         IN  with_statement(visit_statement(e, statements[i]))

\* IrEmitter::visit_block: the statements, then todo!()
visit_block(e, input) ==
    LET with_statements(r) == IF r.panic # "none" THEN r ELSE Panicked(r.e, "todo")
    IN  with_statements(visit_statements(e, input.statements, 1))

\* IrEmitter::visit_statement
visit_statement(e, input) ==
    IF input.k = "Return" THEN visit_return(e, input)
    ELSE IF input.k = "Definition" THEN visit_definition(e, input)
    ELSE IF input.k = "Assign" THEN visit_assign(e, input)
    ELSE IF input.k = "Conditional" THEN visit_conditional(e, input)
    ELSE IF input.k = "Iteration" THEN visit_iteration(e, input)
    ELSE IF input.k = "Console" THEN visit_console(e, input)
    ELSE IF input.k = "Expression" THEN visit_expression_statement(e, input)
    ELSE visit_block(e, input)

(* The emitter as a state machine: declarations spawn tagged registers     *)
(* (spawn_reg is the crate's entry for them), then expressions and         *)
(* statements are lowered. A panic aborts the pass: nothing runs after it. *)

EmitSymbols == {"a", "b", "c"}
EmitSpan == PSpan(0, 1)
EmitIdentifiers == {PIdentifier(n, EmitSpan) : n \in EmitSymbols}
EmitValues ==
    {[k |-> "Integer", int_ty |-> "U8", value |-> "1", span |-> EmitSpan],
     PValue("Boolean", "true", EmitSpan), PValue("Char", "x", EmitSpan)}
EmitLeaves == EmitIdentifiers \cup EmitValues
BinaryOperations ==
    {"Add", "Sub", "Mul", "Div", "Pow", "Or", "And", "Eq", "Ne", "Ge", "Gt", "Le", "Lt"}
EmitOperands ==
    {PIdentifier("a", EmitSpan),
     [k |-> "Integer", int_ty |-> "U8", value |-> "1", span |-> EmitSpan]}
EmitBinaries ==
    {Binary(op, l, r, EmitSpan) : op \in BinaryOperations, l \in EmitOperands, r \in EmitOperands}
    \cup {Binary("Add", l, r, EmitSpan) : l \in EmitLeaves, r \in EmitLeaves}
EmitNested ==
    {Binary(outer, Binary(inner, x, y, EmitSpan), z, EmitSpan) :
        outer \in {"Mul", "Add"}, inner \in {"Add", "Eq"},
        x \in EmitIdentifiers, y \in EmitIdentifiers \ {PIdentifier("c", EmitSpan)},
        z \in {PIdentifier("c", EmitSpan), PValue("Boolean", "true", EmitSpan)}}
    \cup {Binary("Sub", z, Binary("Mul", x, y, EmitSpan), EmitSpan) :
        x \in EmitIdentifiers, y \in EmitOperands, z \in {PIdentifier("a", EmitSpan)}}
EmitUnaries ==
    {Unary(op, l, EmitSpan) : op \in {"Not", "Negate"}, l \in EmitLeaves}
    \cup {Unary("Not", Binary("Eq", x, y, EmitSpan), EmitSpan) :
        x \in EmitIdentifiers, y \in EmitIdentifiers}
EmitUnlowered ==
    {Ternary(c, PIdentifier("a", EmitSpan), y, EmitSpan) : c \in EmitLeaves, y \in EmitOperands}
    \cup {Call(x, <<>>, EmitSpan) : x \in EmitIdentifiers}
    \cup {Call(PIdentifier("a", EmitSpan), <<y>>, EmitSpan) : y \in EmitLeaves}
    \cup {Binary("Add", x, Ternary(x, x, x, EmitSpan), EmitSpan) : x \in EmitIdentifiers}
    \cup {Binary("Add", Call(x, <<>>, EmitSpan), x, EmitSpan) : x \in EmitIdentifiers}
    \cup {Unary("Negate", Call(x, <<>>, EmitSpan), EmitSpan) : x \in EmitIdentifiers}
    \cup {[k |-> "Err"]}
EmitExpressions ==
    EmitLeaves \cup EmitBinaries \cup EmitNested \cup EmitUnaries \cup EmitUnlowered

EmitBlocks ==
    {Block(<<>>)} \cup {Block(<<ExpressionStatement(x)>>) : x \in EmitLeaves}
    \cup {Block(<<ExpressionStatement(x), ExpressionStatement(y)>>) :
            x \in EmitIdentifiers, y \in EmitIdentifiers}
EmitStatements ==
    {ExpressionStatement(x) : x \in EmitExpressions}
    \cup {ConditionalStatement(c, Block(<<>>)) : c \in EmitLeaves}
    \cup {ConditionalStatement(PIdentifier("a", EmitSpan), b) : b \in EmitBlocks}
    \cup {IterationStatement(v, s, s, Block(<<>>)) : v \in EmitIdentifiers, s \in EmitOperands}
    \cup {IterationStatement(PIdentifier("a", EmitSpan), s, s, b) :
            s \in EmitOperands, b \in EmitBlocks}
    \cup {ConsoleStatement(x) : x \in EmitLeaves}
    \cup {Return(x) : x \in EmitLeaves}
    \cup {Definition(TyU8, x) : x \in EmitLeaves}
    \cup {Assign("Assign", x, y, EmitSpan) : x \in EmitIdentifiers, y \in EmitLeaves}
    \cup EmitBlocks

\* IrEmitter::new: no registers, no instructions
InitEmit ==
    /\ registers = <<>>
    /\ buffer = <<>>
    /\ emitted = None
    /\ in_circuit = FALSE
    /\ circuit_name = None
    /\ item = None
    /\ results = <<>>
    /\ tokens = <<>>
    /\ pos = 1
    /\ disallow_circuit_construction = FALSE
    /\ parsed = None
    /\ CheckerIdle
    /\ DriverIdle
    /\ UnitsIdle

\* the pass is still running: no call has panicked
Running == IF emitted = None THEN TRUE ELSE emitted.panic = "none"

\* what a call did: its input, the emitter before it, and how it ended
Lowered(call, input, r) ==
    [k |-> "Lowered", call |-> call, input |-> input,
     before |-> IrEmitter(registers, buffer), panic |-> r.panic, operand |-> r.operand]

Lower(call, input, r) ==
    /\ registers' = r.e.registers
    /\ buffer' = r.e.buffer
    /\ emitted' = Lowered(call, input, r)
    /\ UNCHANGED <<canon_vars, parser_vars, unit_vars, checker_vars, driver_vars>>

\* the instructions emitted one by one
EmitInstructions ==
    {UnaryOperation("Not", OperandRegister(Locator(0)), Locator(1)),
     BinaryOperation("Add", OperandRegister(Locator(0)), OperandRegister(Locator(0)),
                     Locator(1))}

\* a declaration takes a register tagged with its symbol (or a temporary)
SpawnReg ==
    /\ Running
    /\ buffer = <<>> \/ emitted = None
    /\ Len(registers) < MaxRegs
    /\ \E sym \in {Some(n) : n \in EmitSymbols} \cup {None} :
          registers' = spawn_reg(IrEmitter(registers, buffer), sym).e.registers
    /\ emitted' = None
    /\ UNCHANGED <<buffer, canon_vars, parser_vars, unit_vars, checker_vars, driver_vars>>

\* emit_expr on an expression
EmitExpr ==
    /\ Running
    /\ buffer = <<>>
    /\ \E expr \in EmitExpressions :
          Lower("emit_expr", expr, emit_expr(IrEmitter(registers, buffer), expr))

\* visit_statement on a statement
VisitStatement ==
    /\ Running
    /\ buffer = <<>>
    /\ \E statement \in EmitStatements :
          Lower("visit_statement", statement,
                visit_statement(IrEmitter(registers, buffer), statement))

\* the register taken last is released; the list is not empty
DropReg ==
    /\ Running
    /\ buffer = <<>> \/ emitted = None
    /\ Len(registers) > 0
    /\ registers' = drop_reg(IrEmitter(registers, buffer)).e.registers
    /\ emitted' = None
    /\ UNCHANGED <<buffer, canon_vars, parser_vars, unit_vars, checker_vars, driver_vars>>

\* one instruction is pushed on the buffer
Emit ==
    /\ Running
    /\ buffer = <<>> \/ emitted = None
    /\ Len(buffer) < MaxBuffer
    /\ \E instruction \in EmitInstructions :
          buffer' = emit(IrEmitter(registers, buffer), instruction).buffer
    /\ emitted' = None
    /\ UNCHANGED <<registers, canon_vars, parser_vars, unit_vars, checker_vars, driver_vars>>

NextEmit ==
    \/ SpawnReg
    \/ DropReg
    \/ Emit
    \/ EmitExpr
    \/ VisitStatement

SpecEmit == InitEmit /\ [][NextEmit]_vars

--------------------------------------------------------------------------
(* The symbol/type resolver: type_check/type_checker.rs, type_check/mod.rs *)
(* and the symbols of tabi/src/function.rs. A call returns Ok, Err, or the *)
(* error "panic" for todo!() and unwrap on None.                           *)

\* struct FunctionSymbol, FunctionSignature
FunctionSymbol(id, signature, statements, span, variables) ==
    [id |-> id, signature |-> signature, statements |-> statements, span |-> span,
     vars |-> variables]
FunctionSignature(const_, inputs, outputs) ==
    [const_ |-> const_, inputs |-> inputs, outputs |-> outputs]

\* BlockSymbol { statements, span }
BlockSymbol(statements, span) == [statements |-> statements, span |-> span]

\* collect::<IndexMap<_, _>>() on (key, value) pairs: an IndexMap is the sequence
\* of its entries in insertion order; inserting a key that is present replaces
\* its value in place
RECURSIVE index_map(_, _, _)
index_map(pairs, i, map) ==
    IF i > Len(pairs) THEN map
    ELSE LET present == {j \in 1..Len(map) : map[j][1] = pairs[i][1]}
         IN  index_map(pairs, i + 1,
                       IF present = {} THEN Append(map, pairs[i])
                       ELSE [j \in 1..Len(map) |->
                                IF j \in present THEN pairs[i] ELSE map[j]])

\* TypeChecker::convert_function_input: todo!()
convert_function_input(input) == Err("panic")

\* TypeChecker::convert_statement: todo!()
convert_statement(statement) == Err("panic")

\* TypeChecker::convert_block
convert_block(block) ==
    AndThen(Collect([i \in 1..Len(block.statements) |->
                        convert_statement(block.statements[i])]),
            LAMBDA statements : Ok(BlockSymbol(statements, block.span)))

\* TypeChecker::convert_function: the inputs, then f.output.unwrap(), then the block
convert_function(f) ==
    AndThen(Collect([i \in 1..Len(f.input) |-> convert_function_input(f.input[i])]),
            LAMBDA inputs :
                IF f.output = None THEN Err("panic")
                ELSE AndThen(convert_block(f.block),
                             LAMBDA statements :
                                 Ok(FunctionSymbol(f.identifier.name,
                                        FunctionSignature(f.const_,
                                                          index_map(inputs, 1, <<>>),
                                                          f.output.v),
                                        statements, f.span, <<>>))))

\* TypeChecker::forward_declarations: the names of the functions, no variables
forward_declarations(functions) ==
    [functions |-> [i \in 1..Len(functions) |-> functions[i][1].name], vars |-> <<>>]

\* TypeChecker::construct_symbol_table
construct_symbol_table(functions) ==
    AndThen(Collect([i \in 1..Len(functions) |->
                        AndThen(convert_function(functions[i][2]),
                                LAMBDA f : Ok(<<functions[i][1].name, f>>))]),
            LAMBDA pairs : Ok([functions |-> index_map(pairs, 1, <<>>)]))

\* AstPass::do_pass for TypeChecker, on a program of one function
do_pass(f) == construct_symbol_table(<<<<f.identifier, f>>>>)

CheckerNames == {"a", "b"}
CheckerInputs ==
    UNION {[1..n -> {[identifier |-> Identifier(x), const_ |-> FALSE, type_ |-> TyU8] :
                        x \in CheckerNames}] : n \in 0..MaxParams}
CheckerFunctions ==
    {[identifier |-> Identifier("f"), const_ |-> c, input |-> input, output |-> output,
      block |-> [statements |-> statements, span |-> EmitSpan], span |-> EmitSpan] :
        c \in BOOLEAN, input \in CheckerInputs, output \in {None, Some(TyU8), Some(TyBool)},
        statements \in {<<>>, <<Return(IntegerValue(1))>>}}

InitCheck ==
    /\ checker_function \in CheckerFunctions
    /\ function_symbol = None
    /\ in_circuit = FALSE
    /\ circuit_name = None
    /\ item = None
    /\ results = <<>>
    /\ tokens = <<>>
    /\ pos = 1
    /\ disallow_circuit_construction = FALSE
    /\ parsed = None
    /\ EmitterIdle
    /\ DriverIdle
    /\ UnitsIdle

Converted(call, r) ==
    [k |-> "Converted", call |-> call, ok |-> r.ok, val |-> r.val, err |-> r.err]

\* convert_function on the function
ConvertFunction ==
    /\ function_symbol = None
    /\ function_symbol' = Converted("convert_function", convert_function(checker_function))
    /\ UNCHANGED <<checker_function, canon_vars, parser_vars, unit_vars, emit_vars, driver_vars>>

\* do_pass on the program that holds the function
DoPass ==
    /\ function_symbol = None
    /\ function_symbol' = Converted("do_pass", do_pass(checker_function))
    /\ UNCHANGED <<checker_function, canon_vars, parser_vars, unit_vars, emit_vars, driver_vars>>

NextCheck ==
    \/ ConvertFunction
    \/ DoPass

SpecCheck == InitCheck /\ [][NextCheck]_vars

--------------------------------------------------------------------------
(* The driver: compiler/src/lib.rs. The parser's entry points and the      *)
(* snapshot writer are outside the driver: a source is the sequence of its *)
(* items, of which "?" is one that does not parse, and a write fails when  *)
(* the output directory is not writable.                                   *)

\* Program::new(name)
NewProgram(name) == [name |-> name, functions |-> <<>>]

\* Ast::new(program)
Ast(program) == [k |-> "Ast", ast |-> program]

\* struct Compiler: ast, input_ast and the files under output_directory
Compiler(a, i, dir) == [ast |-> a, input_ast |-> i, output_directory |-> dir]

SnapshotFiles == {"initial_ast.json", "inital_input_ast.json"}

\* Compiler::new
NewCompiler ==
    Compiler(Ast(NewProgram("Initial")), None, [file \in SnapshotFiles |-> None])

\* leo_parser::parse_ast
parse_ast(source) ==
    IF \E i \in 1..Len(source) : source[i] = "?" THEN Err("parser")
    ELSE Ok(Ast([name |-> "", functions |-> source]))

\* leo_parser::parse_input
parse_input_ast(source) ==
    IF \E i \in 1..Len(source) : source[i] = "?" THEN Err("parser")
    ELSE Ok([k |-> "InputAst", sections |-> source])

\* Ast::to_json_file_without_keys: the tree as JSON in the file, or an I/O error
to_json_file_without_keys(tree, dir, file_name, writable) ==
    IF writable THEN Ok([dir EXCEPT ![file_name] = Some([k |-> "Json", value |-> tree])])
    ELSE Err("io")

\* a call returns the compiler it leaves and its Result<()>
Return_(compiler, r) == [compiler |-> compiler, ok |-> r.ok, err |-> r.err]

\* a driver that stores the tree before it writes the snapshot
parse_program_from_string_eager(compiler, program_string, writable) ==
    LET written(parsed_ast, w) ==
            IF ~w.ok THEN Return_([compiler EXCEPT !.ast = parsed_ast], w)
            ELSE Return_([compiler EXCEPT !.ast = parsed_ast, !.output_directory = w.val],
                         Ok(None))
        with_ast(p) ==
            IF ~p.ok THEN Return_(compiler, p)
            ELSE written(p.val, to_json_file_without_keys(p.val, compiler.output_directory,
                                                          "initial_ast.json", writable))
    IN  with_ast(parse_ast(program_string))

\* Compiler::parse_program_from_string
parse_program_from_string(compiler, program_string, writable) ==
    LET written(parsed_ast, w) ==
            IF ~w.ok THEN Return_(compiler, w)
            ELSE Return_([compiler EXCEPT !.ast = parsed_ast, !.output_directory = w.val],
                         Ok(None))
        with_ast(p) ==
            IF ~p.ok THEN Return_(compiler, p)
            ELSE written(p.val, to_json_file_without_keys(p.val, compiler.output_directory,
                                                          "initial_ast.json", writable))
    IN  with_ast(parse_ast(program_string))

\* Compiler::parse_input
parse_input(compiler, exists, input_string, writable) ==
    LET written(parsed_input, w) ==
            IF ~w.ok THEN Return_(compiler, w)
            ELSE Return_([compiler EXCEPT !.input_ast = Some(parsed_input),
                                          !.output_directory = w.val], Ok(None))
        with_input(p) ==
            IF ~p.ok THEN Return_(compiler, p)
            ELSE written(p.val, to_json_file_without_keys(p.val, compiler.output_directory,
                                                          "inital_input_ast.json", writable))
    IN  IF ~exists THEN Return_(compiler, Ok(None))
        ELSE with_input(parse_input_ast(input_string))

DriverItems == {"main", "?"}
DriverSources == UNION {[1..n -> DriverItems] : n \in 0..MaxItems}

InitDrive ==
    /\ ast = NewCompiler.ast
    /\ input_ast = NewCompiler.input_ast
    /\ output_directory = NewCompiler.output_directory
    /\ returned = None
    /\ in_circuit = FALSE
    /\ circuit_name = None
    /\ item = None
    /\ results = <<>>
    /\ tokens = <<>>
    /\ pos = 1
    /\ disallow_circuit_construction = FALSE
    /\ parsed = None
    /\ EmitterIdle
    /\ CheckerIdle
    /\ UnitsIdle

\* a call into the compiler: its arguments, the compiler before it, its result
Called(call, source, writable, r) ==
    /\ ast' = r.compiler.ast
    /\ input_ast' = r.compiler.input_ast
    /\ output_directory' = r.compiler.output_directory
    /\ returned' = [k |-> "Returned", call |-> call, source |-> source,
                    writable |-> writable,
                    before |-> Compiler(ast, input_ast, output_directory),
                    ok |-> r.ok, err |-> r.err]
    /\ UNCHANGED <<canon_vars, parser_vars, unit_vars, emit_vars, checker_vars>>

ParseProgramFromString ==
    \E program_string \in DriverSources, writable \in BOOLEAN :
        Called("parse_program_from_string", program_string, writable,
               parse_program_from_string(Compiler(ast, input_ast, output_directory),
                                         program_string, writable))

ParseInput ==
    \E exists \in BOOLEAN, input_string \in DriverSources, writable \in BOOLEAN :
        Called("parse_input", IF exists THEN Some(input_string) ELSE None, writable,
               parse_input(Compiler(ast, input_ast, output_directory), exists,
                           input_string, writable))

NextDrive ==
    \/ ParseProgramFromString
    \/ ParseInput

SpecDrive == InitDrive /\ [][NextDrive]_vars

--------------------------------------------------------------------------
(* The constraint generator's entry: compiler/src/global/global.rs. The    *)
(* calls it makes into the rest of Program (register_function,             *)
(* begin_main_entrypoint, enforce_definition_statement,                    *)
(* enforce_main_entrypoint, enforce_function_definition) are recorded in   *)
(* order; an enforce call on an item marked as failing returns its error.  *)

\* a function or a global constant of the asg: its name, and whether
\* enforcing it fails
AsgItem(name, fails) == [name |-> name, fails |-> fails]

\* leo_asg::CircuitMember
MemberFunction(function) == [k |-> "Function", function |-> function]
MemberVariable(name) == [k |-> "Variable", name |-> name]

\* Function::is_main_entrypoint
is_main_entrypoint(f) == f.name = "main"

\* one call made by enforce_entrypoint
Call_(call, name) == [call |-> call, name |-> name]

\* the calls `call(item)?` over the items in order, up to the first that fails
EnforceEach(call, items) ==
    LET failing == {i \in 1..Len(items) : items[i].fails}
        last == IF failing = {} THEN Len(items)
                ELSE CHOOSE i \in failing : \A j \in failing : i <= j
    IN  [trace |-> [i \in 1..last |-> Call_(call, items[i].name)],
         ok |-> failing = {}]

\* the member functions of the circuits, circuit by circuit
RECURSIVE MemberFunctions(_)
MemberFunctions(circuits) ==
    IF Len(circuits) = 0 THEN <<>>
    ELSE LET members == SelectSeq(Head(circuits), LAMBDA m : m.k = "Function")
         IN  [i \in 1..Len(members) |-> members[i].function]
             \o MemberFunctions(Tail(circuits))

\* what enforce_program did
Enforced_(trace, r) == [trace |-> trace, r |-> r]

\* A plausible slip: the entrypoint body is enforced before the global constants
enforce_entrypoint_body_first(asg_, entrypoint, secondary_functions) ==
    LET registered ==
            <<Call_("register_function", entrypoint.name)>>
            \o [i \in 1..Len(secondary_functions) |->
                   Call_("register_function", secondary_functions[i].name)]
            \o <<Call_("begin_main_entrypoint", entrypoint.name)>>
        consts == EnforceEach("enforce_definition_statement", asg_.scope.global_consts)
        main == EnforceEach("enforce_main_entrypoint", <<entrypoint>>)
        definitions == EnforceEach("enforce_function_definition", secondary_functions)
    IN  IF ~main.ok
        THEN Enforced_(registered \o main.trace, Err("enforce_main_entrypoint"))
        ELSE IF ~consts.ok
        THEN Enforced_(registered \o main.trace \o consts.trace,
                       Err("enforce_definition_statement"))
        ELSE IF ~definitions.ok
        THEN Enforced_(registered \o main.trace \o consts.trace \o definitions.trace,
                       Err("enforce_function_definition"))
        ELSE Enforced_(registered \o main.trace \o consts.trace \o definitions.trace,
                       Ok(None))

\* Program::enforce_entrypoint
enforce_entrypoint(asg_, entrypoint, secondary_functions) ==
    LET registered ==
            <<Call_("register_function", entrypoint.name)>>
            \o [i \in 1..Len(secondary_functions) |->
                   Call_("register_function", secondary_functions[i].name)]
            \o <<Call_("begin_main_entrypoint", entrypoint.name)>>
        consts == EnforceEach("enforce_definition_statement", asg_.scope.global_consts)
        main == EnforceEach("enforce_main_entrypoint", <<entrypoint>>)
        definitions == EnforceEach("enforce_function_definition", secondary_functions)
    IN  IF ~consts.ok
        THEN Enforced_(registered \o consts.trace, Err("enforce_definition_statement"))
        ELSE IF ~main.ok
        THEN Enforced_(registered \o consts.trace \o main.trace,
                       Err("enforce_main_entrypoint"))
        ELSE IF ~definitions.ok
        THEN Enforced_(registered \o consts.trace \o main.trace \o definitions.trace,
                       Err("enforce_function_definition"))
        ELSE Enforced_(registered \o consts.trace \o main.trace \o definitions.trace,
                       Ok(None))

\* Program::enforce_program
enforce_program(asg_) ==
    LET entrypoints == SelectSeq(asg_.functions, is_main_entrypoint)
        secondary_functions ==
            SelectSeq(asg_.scope.functions, LAMBDA f : ~is_main_entrypoint(f))
            \o MemberFunctions(asg_.scope.circuits)
    IN  IF Len(entrypoints) = 0
        THEN Enforced_(<<>>, Err("no_main_entrypoint_function"))
        ELSE enforce_entrypoint(asg_, Head(entrypoints), secondary_functions)

\* the inputs: the names of the top-level functions are distinct (they are the
\* keys of a map), and the scope holds the functions of the program
TopLevelNames == {"main", "f", "g"}
TopLevelFunctions ==
    {fs \in SeqsOf({AsgItem(n, b) : n \in TopLevelNames, b \in BOOLEAN}, 0, MaxFunctions) :
        \A i, j \in 1..Len(fs) : fs[i].name = fs[j].name => i = j}
AsgCircuits ==
    {<<>>,
     <<<<MemberVariable("v")>>>>,
     <<<<MemberFunction(AsgItem("m", FALSE))>>>>,
     <<<<MemberVariable("v"), MemberFunction(AsgItem("m", TRUE))>>>>,
     <<<<MemberFunction(AsgItem("m", FALSE)), MemberVariable("v")>>,
       <<MemberFunction(AsgItem("n", FALSE))>>>>,
     <<<<MemberFunction(AsgItem("m", FALSE))>>, <<MemberFunction(AsgItem("n", TRUE))>>>>}
AsgConsts ==
    {<<>>, <<AsgItem("c", FALSE)>>, <<AsgItem("c", TRUE)>>,
     <<AsgItem("c", FALSE), AsgItem("d", TRUE)>>,
     <<AsgItem("c", TRUE), AsgItem("d", FALSE)>>}
Asgs ==
    {[functions |-> fs,
      scope |-> [functions |-> fs, circuits |-> cs, global_consts |-> gs]] :
        fs \in TopLevelFunctions, cs \in AsgCircuits, gs \in AsgConsts}

InitEnforce ==
    /\ asg \in Asgs
    /\ enforced = None
    /\ ast_program = None /\ annotated = None
    /\ type_pair = None /\ compared = None
    /\ in_circuit = FALSE
    /\ circuit_name = None
    /\ item = None
    /\ results = <<>>
    /\ tokens = <<>>
    /\ pos = 1
    /\ disallow_circuit_construction = FALSE
    /\ parsed = None
    /\ EmitterIdle
    /\ CheckerIdle
    /\ DriverIdle

\* enforce_program on the program
EnforceProgram ==
    /\ enforced = None
    /\ enforced' = enforce_program(asg)
    /\ UNCHANGED <<asg, ast_program, annotated, type_pair, compared,
                   canon_vars, parser_vars, emit_vars, checker_vars, driver_vars>>

NextEnforce == EnforceProgram

SpecEnforce == InitEnforce /\ [][NextEnforce]_vars

--------------------------------------------------------------------------
(* The types of compiler/ast: types/type_.rs *)

\* enum IntegerType
IntegerTypes == {"U8", "U16", "U32", "U64", "U128", "I8", "I16", "I32", "I64", "I128"}

\* enum Type: the unit variants and IntegerType(IntegerType)
UnitTypes == {[k |-> n] : n \in {"Address", "Boolean", "Char", "Field", "Group", "Err"}}
FlatTypes == UnitTypes \cup {[k |-> "IntegerType", integer_type |-> t] : t \in IntegerTypes}

\* #[derive(PartialEq)] on Type: same variant, equal fields
type_eq(left, right) ==
    IF left.k # right.k THEN FALSE
    ELSE IF left.k = "IntegerType" THEN left.integer_type = right.integer_type
    ELSE TRUE

\* Type::eq_flat
eq_flat(self, other) ==
    CASE self.k = "Address" /\ other.k = "Address" -> TRUE
      [] self.k = "Boolean" /\ other.k = "Boolean" -> TRUE
      [] self.k = "Char" /\ other.k = "Char" -> TRUE
      [] self.k = "Field" /\ other.k = "Field" -> TRUE
      [] self.k = "Group" /\ other.k = "Group" -> TRUE
      [] self.k = "IntegerType" /\ other.k = "IntegerType" ->
            self.integer_type = other.integer_type
      [] OTHER -> FALSE

InitTypes ==
    /\ type_pair \in FlatTypes \X FlatTypes
    /\ compared = None
    /\ asg = None /\ enforced = None
    /\ ast_program = None /\ annotated = None
    /\ in_circuit = FALSE
    /\ circuit_name = None
    /\ item = None
    /\ results = <<>>
    /\ tokens = <<>>
    /\ pos = 1
    /\ disallow_circuit_construction = FALSE
    /\ parsed = None
    /\ EmitterIdle
    /\ CheckerIdle
    /\ DriverIdle

\* a.eq_flat(&b), b.eq_flat(&a) and a == b on the pair
EqFlat ==
    /\ compared = None
    /\ compared' = [eq_flat |-> eq_flat(type_pair[1], type_pair[2]),
                    flipped |-> eq_flat(type_pair[2], type_pair[1]),
                    eq |-> type_eq(type_pair[1], type_pair[2])]
    /\ UNCHANGED <<type_pair, asg, enforced, ast_program, annotated,
                   canon_vars, parser_vars, emit_vars, checker_vars, driver_vars>>

NextTypes == EqFlat

SpecTypes == InitTypes /\ [][NextTypes]_vars

--------------------------------------------------------------------------
(* The annotation pass: ast/src/program.rs. A todo!() ends the pass with   *)
(* the outcome "todo"; what it had changed by then is kept in the record.  *)

\* leo_ast::Annotation, as an entry of the function's annotation map
Annotation(name, arguments) == [name |-> name, arguments |-> arguments]

\* leo_ast::Function, the fields the pass reads and writes
AnnotatedFunction(identifier, annotations, core_mapping, const_) ==
    [identifier |-> identifier, annotations |-> annotations,
     core_mapping |-> core_mapping, const_ |-> const_]

\* how the closure ended on a function
Handled(function, outcome) == [function |-> function, outcome |-> outcome]

\* core_map.arguments.get(0).or(Some(&function.identifier.name))
core_map_target(core_map, function) ==
    IF Len(core_map.arguments) > 0 THEN core_map.arguments[1] ELSE function.identifier

\* the closure of handle_internal_annotations on one function, from the i-th
\* name of the cloned annotation map on
RECURSIVE handle_annotations(_, _, _)
handle_annotations(function, names, i) ==
    IF i > Len(names) THEN Handled(function, "done")
    ELSE
        LET name == names[i]
            found == {j \in 1..Len(function.annotations) : function.annotations[j].name = name}
            removed == IF found = {} THEN None
                       ELSE Some(function.annotations[CHOOSE j \in found : TRUE])
            rest == SelectSeq(function.annotations, LAMBDA a : a.name # name)
        IN  IF name = "CoreFunction" /\ removed.k = "Some" THEN
                handle_annotations(
                    [function EXCEPT !.annotations = rest,
                                     !.core_mapping = Some(core_map_target(removed.v, function))],
                    names, i + 1)
            ELSE IF name = "AlwaysConst" /\ removed.k = "Some" THEN
                handle_annotations([function EXCEPT !.annotations = rest, !.const_ = TRUE],
                                   names, i + 1)
            ELSE Handled([function EXCEPT !.annotations = rest], "todo")

\* the closure on a circuit member: only a CircuitFunction is visited
handle_member(member) ==
    IF member.k = "CircuitFunction"
    THEN LET with_function(h) == Handled(CircuitFunction(h.function), h.outcome)
         IN  with_function(handle_annotations(
                 member.function,
                 [j \in 1..Len(member.function.annotations) |->
                     member.function.annotations[j].name], 1))
    ELSE Handled(member, "done")

\* the members of the circuits from the i-th flattened position on, in order;
\* nothing runs after a todo!()
RECURSIVE handle_members(_, _)
handle_members(members, i) ==
    IF i > Len(members) THEN [members |-> members, outcome |-> "done"]
    ELSE LET with_member(h) ==
                 IF h.outcome = "todo"
                 THEN [members |-> [members EXCEPT ![i] = h.function], outcome |-> "todo"]
                 ELSE handle_members([members EXCEPT ![i] = h.function], i + 1)
         IN  with_member(handle_member(members[i]))

\* Program::handle_internal_annotations
handle_internal_annotations(p) ==
    LET flat == Flatten([c \in 1..Len(p.circuits) |-> p.circuits[c].members])
        offset(c) == Len(Flatten([d \in 1..(c - 1) |-> p.circuits[d].members]))
        with_members(h) ==
            [outcome |-> h.outcome,
             program |->
                 Program([c \in 1..Len(p.circuits) |->
                             Circuit(p.circuits[c].circuit_name,
                                     [m \in 1..Len(p.circuits[c].members) |->
                                         h.members[offset(c) + m]])],
                         p.functions)]
    IN  with_members(handle_members(flat, 1))

\* the inputs: annotation maps of distinct names, known and unknown, with no,
\* one or two arguments
AnnotationNames == {"CoreFunction", "AlwaysConst", "test"}
AnnotationArguments == {<<>>, <<"core">>, <<"core", "other">>}
AnnotationMaps ==
    {as \in SeqsOf({Annotation(n, args) : n \in AnnotationNames, args \in AnnotationArguments},
                   0, MaxAnnotations) :
        \A i, j \in 1..Len(as) : as[i].name = as[j].name => i = j}
ShortAnnotationMaps == {as \in AnnotationMaps : Len(as) <= 1}
AnnotatedPrograms ==
    {Program(<<Circuit("Foo", <<CircuitFunction(AnnotatedFunction("f", as, None, FALSE))>>)>>,
             <<>>) : as \in AnnotationMaps}
    \cup {Program(<<Circuit("Foo", <<CircuitVariable("m", TyU8),
                                     CircuitFunction(AnnotatedFunction("f", as, None, FALSE))>>)>>,
                  <<AnnotatedFunction("main", as, None, FALSE)>>) : as \in AnnotationMaps}
    \cup {Program(<<Circuit("Foo", <<CircuitFunction(AnnotatedFunction("f", as, None, FALSE))>>),
                    Circuit("Bar", <<CircuitFunction(AnnotatedFunction("g", bs, None, FALSE))>>)>>,
                  <<>>) : as \in ShortAnnotationMaps, bs \in ShortAnnotationMaps}

InitAnnotate ==
    /\ ast_program \in AnnotatedPrograms
    /\ annotated = None
    /\ asg = None /\ enforced = None
    /\ type_pair = None /\ compared = None
    /\ in_circuit = FALSE
    /\ circuit_name = None
    /\ item = None
    /\ results = <<>>
    /\ tokens = <<>>
    /\ pos = 1
    /\ disallow_circuit_construction = FALSE
    /\ parsed = None
    /\ EmitterIdle
    /\ CheckerIdle
    /\ DriverIdle

\* handle_internal_annotations on the program
HandleInternalAnnotations ==
    /\ annotated = None
    /\ annotated' = handle_internal_annotations(ast_program)
    /\ UNCHANGED <<ast_program, asg, enforced, type_pair, compared,
                   canon_vars, parser_vars, emit_vars, checker_vars, driver_vars>>

NextAnnotate == HandleInternalAnnotations

SpecAnnotate == InitAnnotate /\ [][NextAnnotate]_vars

--------------------------------------------------------------------------
(* Properties of type reduction *)

Ran == {results[i] : i \in 1..Len(results)}
TypeRan == IF item.kind = "type" THEN Ran ELSE {}

RECURSIVE ContainsSelf(_)
ContainsSelf(t) ==
    IF t.k = "SelfType" THEN TRUE
    ELSE IF t.k = "Array" THEN ContainsSelf(t.elem)
    ELSE IF t.k = "Tuple" THEN \E i \in 1..Len(t.types) : ContainsSelf(t.types[i])
    ELSE FALSE

\* a type with no fault: no Self, no zero dimension, no one-element tuple
RECURSIVE Faultless(_)
Faultless(t) ==
    IF t.k = "SelfType" THEN FALSE
    ELSE IF t.k = "Array" THEN ~is_zero(t.dims) /\ Faultless(t.elem)
    ELSE IF t.k = "Tuple" THEN
        Len(t.types) # 1 /\ \A i \in 1..Len(t.types) : Faultless(t.types[i])
    ELSE TRUE

\* a Self occurrence of t has no faulty tuple member before it
RECURSIVE SelfMetFirst(_)
SelfMetFirst(t) ==
    IF t.k = "SelfType" THEN TRUE
    ELSE IF t.k = "Array" THEN SelfMetFirst(t.elem)
    ELSE IF t.k = "Tuple" THEN
        \E i \in 1..Len(t.types) :
            SelfMetFirst(t.types[i]) /\ \A j \in 1..(i - 1) : Faultless(t.types[j])
    ELSE FALSE

\* C3: outside a circuit, a type with a Self occurrence, nested or not, is
\* rejected, and whenever the traversal hands that Self to reduce_type (no tuple
\* member before it has already failed) the error is big_self_outside_of_circuit
C3_SelfOutsideCircuitRejected ==
    \A r \in TypeRan :
        (~r.in_circuit /\ ContainsSelf(r.input)) =>
            /\ ~r.ok
            /\ SelfMetFirst(r.input) => r.err = "big_self_outside_of_circuit"

C3_Witness ==
    \E r \in TypeRan :
        /\ ~r.in_circuit
        /\ r.input.k = "Tuple"
        /\ Len(r.input.types) = 2
        /\ r.input.types[2].k = "Array"
        /\ r.input.types[2].elem = SelfType
        /\ r.err = "big_self_outside_of_circuit"

\* the type written by hand with one dimension per array, dims[1] outermost
RECURSIVE HandNested(_, _)
HandNested(t, dims) ==
    IF Len(dims) = 0 THEN t
    ELSE TyArray(HandNested(t, Tail(dims)), <<Head(dims)>>)

\* the dimension lists met going down from the outermost array, n levels deep
RECURSIVE LevelDims(_, _)
LevelDims(t, n) ==
    IF n = 0 THEN <<>>
    ELSE IF t.k = "Array" THEN <<t.dims>> \o LevelDims(t.elem, n - 1)
    ELSE <<"not an array">>

RECURSIVE Below(_, _)
Below(t, n) == IF n = 0 \/ t.k # "Array" THEN t ELSE Below(t.elem, n - 1)

RECURSIVE AllSingleDims(_)
AllSingleDims(t) ==
    IF t.k = "Array" THEN Len(t.dims) = 1 /\ AllSingleDims(t.elem)
    ELSE IF t.k = "Tuple" THEN \A i \in 1..Len(t.types) : AllSingleDims(t.types[i])
    ELSE TRUE

MultiDim(r) == r.input.k = "Array" /\ Len(r.input.dims) >= 1 /\ ~is_zero(r.input.dims)

RECURSIVE NoOneTuple(_)
NoOneTuple(t) ==
    IF t.k = "Array" THEN NoOneTuple(t.elem)
    ELSE IF t.k = "Tuple" THEN
        Len(t.types) # 1 /\ \A i \in 1..Len(t.types) : NoOneTuple(t.types[i])
    ELSE TRUE

\* a type the pass has nothing to do on, in the given context
RECURSIVE CanonicalType(_, _)
CanonicalType(t, in_circ) ==
    IF t.k = "SelfType" THEN in_circ
    ELSE IF t.k = "Array" THEN
        Len(t.dims) <= 1 /\ ~is_zero(t.dims) /\ CanonicalType(t.elem, in_circ)
    ELSE IF t.k = "Tuple" THEN
        Len(t.types) # 1 /\ \A i \in 1..Len(t.types) : CanonicalType(t.types[i], in_circ)
    ELSE TRUE

\* C6: a tuple type of exactly one member is rejected (with
\* invalid_tuple_dimension_size when the member itself reduces), a tuple type of
\* zero or of two or more members that need no reduction is returned unchanged,
\* and no reduced type holds a one-member tuple
C6_OneTupleRejected ==
    \A r \in TypeRan :
        /\ r.ok => NoOneTuple(r.val)
        /\ r.input.k = "Tuple" =>
            /\ Len(r.input.types) = 1 => ~r.ok
            /\ (Len(r.input.types) = 1 /\ CanonicalType(r.input.types[1], r.in_circuit))
                   => r.err = "invalid_tuple_dimension_size"
            /\ (Len(r.input.types) # 1
                  /\ \A i \in 1..Len(r.input.types) :
                         CanonicalType(r.input.types[i], r.in_circuit))
                   => (r.ok /\ r.val = r.input)

C6_Witness ==
    \E r \in TypeRan :
        /\ r.input = TyTuple(<<TyArray(TyU8, <<2>>)>>)
        /\ r.err = "invalid_tuple_dimension_size"

--------------------------------------------------------------------------
(* Properties of the pass as a whole *)

\* C1: a second run of the pass on the output of a successful run succeeds and
\* returns that output unchanged (programs, and single types, expressions and
\* statements reduced in an unchanged context)
C1_Idempotent ==
    \A i \in 2..Len(results) :
        results[i - 1].ok => (results[i].ok /\ results[i].val = results[i - 1].val)

C1_Witness ==
    /\ item.kind = "program"
    /\ Len(results) = 2
    /\ results[2].ok
    /\ results[1].val # item.node
    /\ Len(item.node.functions) = 1
    /\ Len(item.node.functions[1].block) = 1
    /\ item.node.functions[1].block[1].k = "Assign"
    /\ item.node.functions[1].block[1].operation = "Add"

RECURSIVE SelfInExpression(_)
SelfInExpression(e) ==
    IF e.k = "Cast" THEN ContainsSelf(e.target_type) \/ SelfInExpression(e.inner)
    ELSE IF e.k = "Binary" THEN SelfInExpression(e.left) \/ SelfInExpression(e.right)
    ELSE IF e.k = "ArrayInit" THEN SelfInExpression(e.element)
    ELSE IF e.k = "ArrayInline" THEN
        \E i \in 1..Len(e.elements) : SelfInExpression(e.elements[i])
    ELSE FALSE

SelfInStatement(st) ==
    IF st.k = "Definition" THEN ContainsSelf(st.type_) \/ SelfInExpression(st.value)
    ELSE IF st.k = "Assign" THEN SelfInExpression(st.value)
    ELSE SelfInExpression(st.expression)

SelfInFunction(f) ==
    \/ \E i \in 1..Len(f.input) : ContainsSelf(f.input[i].type_)
    \/ ContainsSelf(f.output)
    \/ \E i \in 1..Len(f.block) : SelfInStatement(f.block[i])

SelfInMember(m) ==
    IF m.k = "CircuitVariable" THEN ContainsSelf(m.type_)
    ELSE IF m.k = "CircuitConst" THEN ContainsSelf(m.type_) \/ SelfInExpression(m.value)
    ELSE SelfInFunction(m.function)

\* some type position of the program holds a SelfType
SelfInProgram(p) ==
    \/ \E i \in 1..Len(p.circuits) :
          \E j \in 1..Len(p.circuits[i].members) : SelfInMember(p.circuits[i].members[j])
    \/ \E i \in 1..Len(p.functions) : SelfInFunction(p.functions[i])

ProgramRan == IF item.kind = "program" THEN Ran ELSE {}

\* C2: the output of a successful run of the pass on a program holds no SelfType
\* in any type position
C2_NoSelfTypeAfterPass ==
    \A r \in ProgramRan : r.ok => ~SelfInProgram(r.val)

\* what holds of the code: in the output of a successful run no SelfType is left
\* in the member functions of a circuit nor in a top-level function
C2_NoSelfTypeInFunctions ==
    \A r \in ProgramRan :
        r.ok =>
            /\ \A i \in 1..Len(r.val.functions) : ~SelfInFunction(r.val.functions[i])
            /\ \A i \in 1..Len(r.val.circuits) :
                  \A j \in 1..Len(r.val.circuits[i].members) :
                      r.val.circuits[i].members[j].k = "CircuitFunction"
                          => ~SelfInMember(r.val.circuits[i].members[j])

RECURSIVE ZeroDimInType(_)
ZeroDimInType(t) ==
    IF t.k = "Array" THEN is_zero(t.dims) \/ ZeroDimInType(t.elem)
    ELSE IF t.k = "Tuple" THEN \E i \in 1..Len(t.types) : ZeroDimInType(t.types[i])
    ELSE FALSE

RECURSIVE ZeroDimInExpression(_)
ZeroDimInExpression(e) ==
    IF e.k = "ArrayInit" THEN is_zero(e.dims) \/ ZeroDimInExpression(e.element)
    ELSE IF e.k = "ArrayInline" THEN
        \E i \in 1..Len(e.elements) : ZeroDimInExpression(e.elements[i])
    ELSE IF e.k = "Binary" THEN ZeroDimInExpression(e.left) \/ ZeroDimInExpression(e.right)
    ELSE IF e.k = "Cast" THEN ZeroDimInType(e.target_type) \/ ZeroDimInExpression(e.inner)
    ELSE FALSE

ExpressionRan == IF item.kind = "expression" THEN Ran ELSE {}

\* C5, for array types: a type with a zero dimension is rejected, and no reduced
\* type holds one
C5_NoZeroDimensionType ==
    \A r \in TypeRan :
        /\ ZeroDimInType(r.input) => ~r.ok
        /\ r.ok => ~ZeroDimInType(r.val)

\* C5: a zero dimension is an error in array types and in array initializers: no
\* output of the pass holds an array type or an array initializer with one
C5_NoZeroDimension ==
    /\ C5_NoZeroDimensionType
    /\ \A r \in ExpressionRan :
          /\ ZeroDimInExpression(r.input) => ~r.ok
          /\ r.ok => ~ZeroDimInExpression(r.val)

StatementRan == IF item.kind = "statement" THEN Ran ELSE {}

\* the target read as an expression: the identifier inside, the last access outermost
RECURSIVE ReadOf(_, _, _)
ReadOf(identifier, accesses, span) ==
    IF Len(accesses) = 0 THEN Identifier(identifier)
    ELSE LET inner == ReadOf(identifier, SubSeq(accesses, 1, Len(accesses) - 1), span)
             last == accesses[Len(accesses)]
         IN  IF last.k = "ArrayIndex" THEN ArrayAccess(inner, last.index, span)
             ELSE IF last.k = "ArrayRange"
                 THEN ArrayRangeAccess(inner, last.left, last.right, span)
             ELSE IF last.k = "Tuple" THEN TupleAccess(inner, last.index, span)
             ELSE MemberAccess(inner, last.name, span)

\* C7: `target op= v` becomes the plain assignment of Binary(op, read(target), v)
\* to the same assignee, for each of the fourteen compound operations; a plain
\* assignment keeps its assignee and its value
C7_CompoundDesugared ==
    \A r \in StatementRan :
        r.input.k = "Assign" =>
            /\ r.ok
            /\ r.val.k = "Assign"
            /\ r.val.operation = "Assign"
            /\ r.val.assignee = r.input.assignee
            /\ IF r.input.operation = "Assign"
               THEN r.val.value = r.input.value
               ELSE /\ r.input.operation \in CompoundOperations
                    /\ r.val.value =
                          Binary(r.input.operation,
                                 ReadOf(r.input.assignee.identifier,
                                        r.input.assignee.accesses, r.input.span),
                                 r.input.value, r.input.span)

C7_Witness ==
    \E r \in StatementRan :
        /\ r.input.k = "Assign"
        /\ r.input.operation = "ShrSigned"
        /\ Len(r.input.assignee.accesses) = 2
        /\ r.input.assignee.accesses[1].k = "Member"
        /\ r.input.assignee.accesses[2].k = "ArrayIndex"
        /\ r.ok
        /\ r.val.value.k = "Binary"
        /\ r.val.value.op = "ShrSigned"
        /\ r.val.value.left.k = "ArrayAccess"
        /\ r.val.value.left.array.k = "MemberAccess"

\* C8: a string literal of n >= 1 characters becomes an inline array of n char
\* values, the i-th holding the i-th character; the empty literal is the
\* empty_string error
C8_StringExploded ==
    \A r \in ExpressionRan :
        r.input.k = "String" =>
            IF Len(r.input.chars) = 0 THEN r.err = "empty_string"
            ELSE /\ r.ok
                 /\ r.val.k = "ArrayInline"
                 /\ Len(r.val.elements) = Len(r.input.chars)
                 /\ \A i \in 1..Len(r.input.chars) :
                       /\ r.val.elements[i].k = "Char"
                       /\ r.val.elements[i].character = r.input.chars[i]

C8_Witness ==
    \E r \in ExpressionRan :
        /\ r.input.k = "String"
        /\ r.input.chars = <<"A", "b">>
        /\ r.ok
        /\ Len(r.val.elements) = 2
        /\ r.val.elements[2].character = "b"

--------------------------------------------------------------------------
(* Properties of the expression parser *)

Done == parsed.k = "Parsed"

NoParens == \A i \in 1..Len(tokens) : tokens[i].token \notin {"LeftParen", "RightParen"}

\* the precedence level of the operator at the root of an expression
Level(e) ==
    IF e.k = "Ternary" THEN 1
    ELSE IF e.k = "Binary" THEN
        CASE e.op = "Or" -> 2
          [] e.op = "And" -> 3
          [] e.op \in {"Eq", "Ne"} -> 4
          [] e.op \in {"Lt", "Le", "Gt", "Ge"} -> 5
          [] e.op \in {"Add", "Sub"} -> 6
          [] e.op \in {"Mul", "Div"} -> 7
          [] e.op = "Pow" -> 8
    ELSE IF e.k = "Unary" THEN 9
    ELSE 10

\* no operator has an operand whose operator is of a lower level (the middle
\* operand of a ternary, bracketed by `?` and `:`, is a whole expression)
RECURSIVE WellLayered(_)
WellLayered(e) ==
    IF e.k = "Binary" THEN
        /\ Level(e.left) >= Level(e) /\ Level(e.right) >= Level(e)
        /\ WellLayered(e.left) /\ WellLayered(e.right)
    ELSE IF e.k = "Unary" THEN Level(e.inner) >= Level(e) /\ WellLayered(e.inner)
    ELSE IF e.k = "Ternary" THEN
        /\ Level(e.condition) > Level(e)
        /\ WellLayered(e.condition) /\ WellLayered(e.if_true) /\ WellLayered(e.if_false)
    ELSE TRUE

TokenOfOperation(op) ==
    CASE op = "Or" -> "Or" [] op = "And" -> "And" [] op = "Eq" -> "Eq" [] op = "Ne" -> "NotEq"
      [] op = "Lt" -> "Lt" [] op = "Le" -> "LtEq" [] op = "Gt" -> "Gt" [] op = "Ge" -> "GtEq"
      [] op = "Add" -> "Add" [] op = "Sub" -> "Minus" [] op = "Mul" -> "Mul"
      [] op = "Div" -> "Div" [] op = "Pow" -> "Exp"

\* the tokens an expression spells, left to right
RECURSIVE Yield(_)
Yield(e) ==
    IF e.k = "Binary" THEN Yield(e.left) \o <<TokenOfOperation(e.op)>> \o Yield(e.right)
    ELSE IF e.k = "Unary"
        THEN <<IF e.op = "Not" THEN "Not" ELSE "Minus">> \o Yield(e.inner)
    ELSE IF e.k = "Ternary" THEN
        Yield(e.condition) \o <<"Question">> \o Yield(e.if_true) \o <<"Colon">>
            \o Yield(e.if_false)
    ELSE IF e.k = "Identifier" THEN <<e.name>>
    ELSE IF e.k = "Integer" THEN <<"Int", e.int_ty>>
    ELSE IF e.k = "Field" THEN <<"Int", "Field">>
    ELSE IF e.k = "GroupSingle" THEN <<"Int", "Group">>
    ELSE <<e.k>>

Spelling(i) == IF tokens[i].token = "Ident" THEN tokens[i].text ELSE tokens[i].token

Leaf(i) == PIdentifier(tokens[i].text, tokens[i].span)
Node(op, left, right) == Binary(op, left, right, PSpan(left.span.lo, right.span.hi))

BinaryTokens ==
    {"Or", "And", "Eq", "NotEq", "Lt", "LtEq", "Gt", "GtEq", "Add", "Minus", "Mul", "Div", "Exp"}

LevelOfToken(t) ==
    CASE t = "Or" -> 2 [] t = "And" -> 3 [] t \in {"Eq", "NotEq"} -> 4
      [] t \in {"Lt", "LtEq", "Gt", "GtEq"} -> 5 [] t \in {"Add", "Minus"} -> 6
      [] t \in {"Mul", "Div"} -> 7 [] t = "Exp" -> 8

OperationOfToken(t) ==
    CASE t = "Or" -> "Or" [] t = "And" -> "And" [] t = "Eq" -> "Eq" [] t = "NotEq" -> "Ne"
      [] t = "Lt" -> "Lt" [] t = "LtEq" -> "Le" [] t = "Gt" -> "Gt" [] t = "GtEq" -> "Ge"
      [] t = "Add" -> "Add" [] t = "Minus" -> "Sub" [] t = "Mul" -> "Mul"
      [] t = "Div" -> "Div" [] t = "Exp" -> "Pow"

\* the source is `a op1 b op2 c` with binary operators of two different levels
TwoLevels ==
    /\ Len(tokens) = 5
    /\ \A i \in {1, 3, 5} : tokens[i].token = "Ident"
    /\ tokens[2].token \in BinaryTokens /\ tokens[4].token \in BinaryTokens
    /\ LevelOfToken(tokens[2].token) # LevelOfToken(tokens[4].token)

\* C9: the levels are strictly layered. `a op1 b op2 c` with operators of two
\* different levels parses, whole, to the tree in which the operator of the
\* higher level has its two neighbours as operands; and in every tree parsed from
\* a source without parentheses no operator has an operand of a lower level,
\* while the tree spells the tokens consumed
C9_PrecedenceLayered ==
    (Done /\ NoParens) =>
        /\ TwoLevels =>
              /\ parsed.ok
              /\ pos = Len(tokens) + 1
              /\ LET op1 == OperationOfToken(tokens[2].token)
                     op2 == OperationOfToken(tokens[4].token)
                 IN  parsed.val =
                        IF LevelOfToken(tokens[2].token) > LevelOfToken(tokens[4].token)
                        THEN Node(op2, Node(op1, Leaf(1), Leaf(3)), Leaf(5))
                        ELSE Node(op1, Leaf(1), Node(op2, Leaf(3), Leaf(5)))
        /\ parsed.ok =>
              /\ WellLayered(parsed.val)
              /\ Yield(parsed.val) = [i \in 1..(pos - 1) |-> Spelling(i)]

C9_Witness ==
    /\ Done
    /\ Len(tokens) = 5
    /\ tokens[2].token = "Add"
    /\ tokens[4].token = "Mul"
    /\ parsed.ok
    /\ parsed.val.op = "Add"
    /\ parsed.val.right.k = "Binary"
    /\ parsed.val.right.op = "Mul"

\* the source is a chain x1 ** x2 ** .. of one or more `**`
ExpChain ==
    /\ Len(tokens) >= 3
    /\ Len(tokens) % 2 = 1
    /\ \A i \in 1..Len(tokens) :
          tokens[i].token = (IF i % 2 = 1 THEN "Ident" ELSE "Exp")

\* Pow(x_i, Pow(x_i+1, .. )) over the operands from token i on
RECURSIVE RightNested(_)
RightNested(i) ==
    IF i = Len(tokens) THEN Leaf(i) ELSE Node("Pow", Leaf(i), RightNested(i + 2))

\* C10: a chain e1 ** e2 ** .. ** en parses, whole, to
\* Pow(e1, Pow(e2, .. Pow(e(n-1), en)))
C10_PowRightAssociative ==
    (Done /\ ExpChain) =>
        /\ parsed.ok
        /\ pos = Len(tokens) + 1
        /\ parsed.val = RightNested(1)

C10_Witness ==
    /\ Done
    /\ ExpChain
    /\ Len(tokens) = 7
    /\ parsed.ok
    /\ parsed.val.right.k = "Binary"
    /\ parsed.val.right.right.k = "Binary"
    /\ parsed.val.right.right.left = Leaf(5)

EqualityTokens == {"Eq", "NotEq"}

IsEquality(e) == e.k = "Binary" /\ e.op \in {"Eq", "Ne"}

\* the expression stands between a `(` and a `)` of the source
Parenthesized(e) ==
    \E i, j \in 1..Len(tokens) :
        /\ i + 1 < j
        /\ tokens[i].token = "LeftParen"
        /\ tokens[j].token = "RightParen"
        /\ tokens[i + 1].span.lo = e.span.lo
        /\ tokens[j - 1].span.hi = e.span.hi

\* every equality operand of an equality was written in parentheses
RECURSIVE EqualityNotNested(_)
EqualityNotNested(e) ==
    IF e.k = "Binary" THEN
        /\ IsEquality(e) =>
              /\ IsEquality(e.left) => Parenthesized(e.left)
              /\ IsEquality(e.right) => Parenthesized(e.right)
        /\ EqualityNotNested(e.left) /\ EqualityNotNested(e.right)
    ELSE IF e.k = "Unary" THEN EqualityNotNested(e.inner)
    ELSE IF e.k = "Ternary" THEN
        /\ EqualityNotNested(e.condition)
        /\ EqualityNotNested(e.if_true)
        /\ EqualityNotNested(e.if_false)
    ELSE TRUE

\* the source starts `a == b == ..`: two equality operators in a row
TwoEqualities ==
    /\ Len(tokens) >= 5
    /\ \A i \in {1, 3, 5} : tokens[i].token = "Ident"
    /\ tokens[2].token \in EqualityTokens /\ tokens[4].token \in EqualityTokens

\* C11: equality does not associate. Of `a == b == c` the parser takes the first
\* comparison only, returns Eq(a, b) and stops at the second equality operator;
\* and in every parsed tree an equality is an operand of an equality only where
\* the source has it in parentheses
C11_EqualityNonAssociative ==
    Done =>
        /\ TwoEqualities =>
              /\ parsed.ok
              /\ parsed.val = Node(OperationOfToken(tokens[2].token), Leaf(1), Leaf(3))
              /\ pos = 4
        /\ parsed.ok => EqualityNotNested(parsed.val)

C11_Witness ==
    /\ Done
    /\ Len(tokens) = 5
    /\ tokens[2].token = "Eq"
    /\ tokens[4].token = "NotEq"
    /\ parsed.ok
    /\ parsed.val.op = "Eq"
    /\ parsed.val.right = Leaf(3)
    /\ tokens[pos].token = "NotEq"

\* the source starts with an integer literal
LiteralFirst == Len(tokens) >= 1 /\ tokens[1].token = "Int"

\* a suffix token follows the literal
SuffixFollows == Len(tokens) >= 2 /\ tokens[2].token \in INT_TYPES

Adjacent == tokens[1].span.hi = tokens[2].span.lo

\* the value expression of the literal and its suffix
SuffixedValue ==
    LET full_span == PSpan(tokens[1].span.lo, tokens[2].span.hi)
    IN  IF tokens[2].token = "Field" THEN PValue("Field", tokens[1].text, full_span)
        ELSE IF tokens[2].token = "Group" THEN PValue("GroupSingle", tokens[1].text, full_span)
        ELSE [k |-> "Integer", int_ty |-> tokens[2].token, value |-> tokens[1].text,
              span |-> full_span]

\* C12: an integer literal followed by a type suffix parses to the value of that
\* suffix exactly when the literal ends where the suffix starts; when they are
\* apart the parse fails with unexpected_whitespace on the gap between them, and
\* when no suffix follows it fails with implicit_values_not_allowed
C12_LiteralSuffixAdjacency ==
    (Done /\ LiteralFirst) =>
        /\ parsed.ok <=> (SuffixFollows /\ Adjacent)
        /\ (SuffixFollows /\ Adjacent) =>
              IF Len(tokens) = 2
              THEN parsed.val = SuffixedValue /\ pos = 3
              ELSE parsed.val.k = "Binary" /\ parsed.val.left = SuffixedValue
        /\ (SuffixFollows /\ ~Adjacent) =>
              /\ parsed.err = "unexpected_whitespace"
              /\ parsed.err_span = PSpan(tokens[1].span.hi, tokens[2].span.lo)
        /\ ~SuffixFollows => parsed.err = "implicit_values_not_allowed"

C12_Witness ==
    /\ Done
    /\ LiteralFirst
    /\ SuffixFollows
    /\ tokens[2].token = "U8"
    /\ tokens[2].span.lo = tokens[1].span.hi + 1
    /\ parsed.err = "unexpected_whitespace"
    /\ parsed.err_span = PSpan(2, 3)

\* the source is one parenthesised list, not the group literal form
ParenList ==
    /\ Len(tokens) >= 2
    /\ tokens[1].token = "LeftParen"
    /\ tokens[Len(tokens)].token = "RightParen"
    /\ \A i \in 2..(Len(tokens) - 1) : tokens[i].token \in {"Ident", "Comma"}

\* the positions of the elements of the list
ElementAt == {i \in 2..(Len(tokens) - 1) : tokens[i].token = "Ident"}

TrailingComma == tokens[Len(tokens) - 1].token = "Comma"

\* C13: a parenthesised list that is not a group literal parses to its single
\* element when it has exactly one element and no trailing comma, and otherwise to
\* a tuple-init expression holding its elements
C13_SingleOrTupleInit ==
    (Done /\ ParenList) =>
        /\ parsed.ok
        /\ IF Cardinality(ElementAt) = 1 /\ ~TrailingComma
           THEN parsed.val = Leaf(2)
           ELSE /\ parsed.val.k = "TupleInit"
                /\ Len(parsed.val.elements) = Cardinality(ElementAt)

\* what holds of the code: the single element is returned, every other list is
\* refused with the error `unexpected`
C13_SingleOrError ==
    (Done /\ ParenList) =>
        IF Cardinality(ElementAt) = 1 /\ ~TrailingComma
        THEN parsed.ok /\ parsed.val = Leaf(2)
        ELSE ~parsed.ok /\ parsed.err = "unexpected"

--------------------------------------------------------------------------
(* Properties of the IR emitter *)

\* the last call was `call` and it returned (no panic)
Returned(call) ==
    /\ emitted # None
    /\ emitted.call = call
    /\ emitted.panic = "none"

\* the indices of the registers that carried the name before the last call
Tagged(name) ==
    {i \in 1..Len(emitted.before.registers) : RegEq(emitted.before.registers[i], name)}

\* the last call lowered an identifier that tags at least two live registers
ShadowedLookup ==
    /\ Returned("emit_expr")
    /\ emitted.input.k = "Identifier"
    /\ Cardinality(Tagged(emitted.input.name)) >= 2

\* C14: a lookup by name resolves to the live register of the highest index that
\* carries the name: when a name tags two live registers, the later one wins.
C14_LastWriteWins ==
    (Returned("emit_expr") /\ emitted.input.k = "Identifier") =>
        \E i \in Tagged(emitted.input.name) :
            /\ \A j \in Tagged(emitted.input.name) : j <= i
            /\ emitted.operand = OperandRegister(emitted.before.registers[i].register)

\* what the code does: the register of the lowest index that carries the name
C14_FirstWriteWins ==
    (Returned("emit_expr") /\ emitted.input.k = "Identifier") =>
        \E i \in Tagged(emitted.input.name) :
            /\ \A j \in Tagged(emitted.input.name) : i <= j
            /\ emitted.operand = OperandRegister(emitted.before.registers[i].register)

\* the opcode that the source operator is lowered to
OpcodeImage ==
    {<<"Add", "Add">>, <<"Sub", "Sub">>, <<"Mul", "Mul">>, <<"Div", "Div">>,
     <<"Pow", "Pow">>, <<"Or", "Or">>, <<"And", "And">>, <<"Eq", "Equal">>,
     <<"Ne", "NotEqual">>, <<"Lt", "LessThan">>, <<"Le", "LessThanOrEqual">>,
     <<"Gt", "GreaterThan">>, <<"Ge", "GreaterThanOrEqual">>}

\* an operand that lowers without an instruction: an identifier that tags a live
\* register, or a literal that has a constant form
Lowers(operand) ==
    \/ operand.k = "Identifier" /\ Tagged(operand.name) # {}
    \/ operand.k \in ValueKinds \ {"Char"}

\* the last call was emit_expr on a binary expression of two such operands
FlatBinary ==
    /\ emitted # None
    /\ emitted.call = "emit_expr"
    /\ emitted.input.k = "Binary"
    /\ emitted.input.left.k \in ValueKinds \cup {"Identifier"}
    /\ emitted.input.right.k \in ValueKinds \cup {"Identifier"}
    /\ Lowers(emitted.input.left)
    /\ Lowers(emitted.input.right)

SumTimesC ==
    Binary("Mul", Binary("Add", PIdentifier("a", EmitSpan), PIdentifier("b", EmitSpan),
                         EmitSpan),
           PIdentifier("c", EmitSpan), EmitSpan)
Sum == Binary("Add", PIdentifier("a", EmitSpan), PIdentifier("b", EmitSpan), EmitSpan)

\* the last call was visit_statement on the expression statement of `expr`, from
\* an emitter without temporaries (every live register is a tagged one), and it
\* returned
StatementOf(expr) ==
    /\ Returned("visit_statement")
    /\ emitted.input = ExpressionStatement(expr)
    /\ \A i \in 1..Len(emitted.before.registers) :
           emitted.before.registers[i].symbol # None

\* C16: from an emitter with no temporaries, the expression statement
\* `(a + b) * c` gives the inner Add the destination register 0 and the outer Mul
\* the destination register 1, and after the statement both are released: the
\* live-register count is what it was before; `a + b` alone gives the Add the
\* destination register 0.
C16_TemporariesReleased ==
    /\ StatementOf(SumTimesC) =>
           /\ Len(buffer) = 2
           /\ buffer[1].opcode = "Add" /\ buffer[1].destination = Locator(0)
           /\ buffer[2].opcode = "Mul" /\ buffer[2].destination = Locator(1)
           /\ registers = emitted.before.registers
    /\ StatementOf(Sum) =>
           /\ Len(buffer) = 1
           /\ buffer[1].opcode = "Add" /\ buffer[1].destination = Locator(0)
           /\ registers = emitted.before.registers

\* what the code does: the destinations are numbered from the live-register
\* count n, which counts the registers of a, b and c, and the statement pops one
\* register, so the Add's destination stays live after `(a + b) * c`
C16_OneReleased ==
    /\ StatementOf(SumTimesC) =>
           LET n == Len(emitted.before.registers)
           IN  /\ n >= 3
               /\ Len(buffer) = 2
               /\ buffer[1].opcode = "Add" /\ buffer[1].destination = Locator(n)
               /\ buffer[2].opcode = "Mul" /\ buffer[2].destination = Locator(n + 1)
               /\ registers = Append(emitted.before.registers, Reg(Locator(n), None))
    /\ StatementOf(Sum) =>
           LET n == Len(emitted.before.registers)
           IN  /\ n >= 2
               /\ Len(buffer) = 1
               /\ buffer[1].opcode = "Add" /\ buffer[1].destination = Locator(n)
               /\ registers = emitted.before.registers

\* the last call was visit_statement on an expression statement whose expression
\* lowers (emit_expr on it returns)
ExpressionStatementRan ==
    /\ emitted # None
    /\ emitted.call = "visit_statement"
    /\ emitted.input.k = "Expression"
    /\ emit_expr(emitted.before, emitted.input.expression).panic = "none"

\* C17: an expression statement releases only the register its own expression
\* produced: every register live before the statement is live after it, at the
\* same index and with the same tag, also when the expression is a bare
\* identifier or a literal, and the pop never meets an empty register list.
C17_OnlyOwnRegisterReleased ==
    ExpressionStatementRan =>
        /\ emitted.panic = "none"
        /\ Len(registers) >= Len(emitted.before.registers)
        /\ \A i \in 1..Len(emitted.before.registers) :
               registers[i] = emitted.before.registers[i]

\* what the code does: one pop after the expression, whatever it allocated; on
\* an empty list the pop panics
C17_AlwaysPopsOne ==
    ExpressionStatementRan =>
        LET after_expr == emit_expr(emitted.before, emitted.input.expression).e.registers
        IN  IF after_expr = <<>>
            THEN emitted.panic = "unwrap" /\ registers = <<>>
            ELSE /\ emitted.panic = "none"
                 /\ registers = SubSeq(after_expr, 1, Len(after_expr) - 1)

\* the last call was given a construct the IR cannot represent: a ternary or a
\* call expression, a conditional or an iteration statement
Unrepresentable ==
    /\ emitted # None
    /\ \/ emitted.call = "emit_expr" /\ emitted.input.k \in {"Ternary", "Call"}
       \/ emitted.call = "visit_statement" /\ emitted.input.k \in {"Conditional", "Iteration"}

\* C18: a construct the IR cannot represent makes emission end in an error that
\* is returned to the caller, not in a panic and not in a silent skip, and no
\* instruction is appended for it.
C18_UnrepresentableReported ==
    Unrepresentable =>
        /\ emitted.panic = "none"
        /\ buffer = emitted.before.buffer

\* what the code does: unimplemented!() panics; nothing is appended
C18_UnrepresentablePanics ==
    Unrepresentable =>
        /\ emitted.panic = "unimplemented"
        /\ buffer = emitted.before.buffer
        /\ registers = emitted.before.registers

--------------------------------------------------------------------------
(* Properties of the symbol/type resolver *)

\* convert_function ran on the function
FunctionConverted == function_symbol # None /\ function_symbol.call = "convert_function"

\* the names of the parameters, in declaration order
ParameterNames == [i \in 1..Len(checker_function.input) |-> checker_function.input[i].identifier.name]

DuplicateParameter ==
    \E i, j \in 1..Len(ParameterNames) : i # j /\ ParameterNames[i] = ParameterNames[j]

\* the function has a declared output and an empty body, so that only its
\* parameters decide whether it resolves
OnlyParameters ==
    checker_function.output # None /\ checker_function.block.statements = <<>>

\* C19: resolving a signature that declares the same parameter name twice fails
\* with the duplicate-parameter error, never keeping one of the two; with
\* pairwise distinct names it succeeds with one entry per parameter, in
\* declaration order.
C19_DuplicateParameterRejected ==
    (FunctionConverted /\ OnlyParameters) =>
        IF DuplicateParameter
        THEN ~function_symbol.ok /\ function_symbol.err = "duplicate_parameter"
        ELSE /\ function_symbol.ok
             /\ Len(function_symbol.val.signature.inputs) = Len(ParameterNames)
             /\ \A i \in 1..Len(ParameterNames) :
                    function_symbol.val.signature.inputs[i][1] = ParameterNames[i]

\* what the code does: a function with a parameter ends in the todo!() panic of
\* convert_function_input, whether its names are distinct or not
C19_ParametersPanic ==
    (FunctionConverted /\ OnlyParameters) =>
        IF checker_function.input = <<>>
        THEN function_symbol.ok /\ function_symbol.val.signature.inputs = <<>>
        ELSE ~function_symbol.ok /\ function_symbol.err = "panic"

--------------------------------------------------------------------------
(* Properties of the driver *)

\* the last call was parse_program_from_string
ProgramParsed == returned # None /\ returned.call = "parse_program_from_string"

\* the source of the last call does not parse
ParseFails == \E i \in 1..Len(returned.source) : returned.source[i] = "?"

\* C20: parse_program_from_string leaves the stored AST unchanged and returns
\* the error when parsing fails or when writing the post-parse snapshot fails;
\* the stored AST is replaced, by the tree parsed from the source, only after
\* both steps have succeeded.
C20_AstReplacedAfterBothSteps ==
    ProgramParsed =>
        IF ParseFails
        THEN ~returned.ok /\ returned.err = "parser" /\ ast = returned.before.ast
        ELSE IF ~returned.writable
        THEN ~returned.ok /\ returned.err = "io" /\ ast = returned.before.ast
        ELSE /\ returned.ok
             /\ ast.ast.functions = returned.source
             /\ output_directory["initial_ast.json"] = Some([k |-> "Json", value |-> ast])

\* the snapshot could not be written for a source that parses to a tree other
\* than the stored one, after an earlier call had stored a tree
C20_Witness ==
    /\ ProgramParsed
    /\ ~ParseFails
    /\ ~returned.writable
    /\ returned.before.ast # Ast(NewProgram("Initial"))
    /\ returned.before.ast.ast.functions # returned.source

--------------------------------------------------------------------------
(* Properties of the parser: prefix operators, the flag, associativity *)

\* the tokens are k prefix operators and one identifier, and they were parsed
PrefixRun(k) ==
    /\ Done
    /\ Len(tokens) = k + 1
    /\ \A i \in 1..k : tokens[i].token \in {"Not", "Minus"}
    /\ tokens[k + 1].token = "Ident"

\* the Unary nodes of the operators i..k around the identifier, the operator i
\* outermost, each spanning from its own token to the end of the identifier
RECURSIVE PrefixNest(_, _)
PrefixNest(i, k) ==
    IF i > k THEN Leaf(k + 1)
    ELSE Unary(IF tokens[i].token = "Not" THEN "Not" ELSE "Negate", PrefixNest(i + 1, k),
               PSpan(tokens[i].span.lo, tokens[k + 1].span.hi))

\* C23: k >= 0 prefix operators before an operand parse to k nested Unary nodes
\* in source order, the first operator outermost and the last innermost, and the
\* span of each node runs from its own operator to the end of the operand, so
\* that each outer span contains the inner one.
C23_PrefixNestedInSourceOrder ==
    \A k \in 0..MaxPrefix :
        PrefixRun(k) =>
            /\ parsed.ok
            /\ parsed.val = PrefixNest(1, k)
            /\ pos = k + 2

\* `!-a` was parsed
C23_Witness ==
    /\ PrefixRun(2)
    /\ tokens[1].token = "Not"
    /\ tokens[2].token = "Minus"
    /\ parsed.ok

\* the inner parse of the last call: parse_conditional_expression from the start
\* of the tokens with the flag cleared
InnerParse == parse_conditional_expression(tokens, PState(1, FALSE))

\* C24: parse_expression leaves disallow_circuit_construction as it found it,
\* whether the parse succeeds or fails and however the calls nest (ternary
\* branches, call arguments, parenthesised lists); the inner parse runs, and
\* ends, with the flag false.
C24_FlagRestored ==
    Done =>
        /\ disallow_circuit_construction = parsed.prior_flag
        /\ parsed.entry = "parse_expression" =>
               /\ InnerParse.p.dcc = FALSE
               /\ InnerParse.ok = parsed.ok
               /\ InnerParse.val = parsed.val
               /\ InnerParse.p.pos = pos

\* a call of parse_expression with the flag set failed inside a call argument
C24_Witness ==
    /\ Done
    /\ parsed.entry = "parse_expression"
    /\ parsed.prior_flag
    /\ ~parsed.ok
    /\ Len(tokens) >= 3
    /\ tokens[2].token = "LeftParen"

\* the levels parsed through parse_bin_expr: ||, &&, ordering, additive,
\* multiplicative
HelperLevels == {2, 3, 5, 6, 7}

\* the source is a chain a op1 b op2 c .. of n >= 1 operators of one such level
SameLevelChain(n) ==
    /\ Done
    /\ Len(tokens) = 2 * n + 1
    /\ \A i \in 1..(2 * n + 1) :
           IF i % 2 = 1 THEN tokens[i].token = "Ident"
           ELSE /\ tokens[i].token \in BinaryTokens
                /\ LevelOfToken(tokens[i].token) \in HelperLevels
                /\ LevelOfToken(tokens[i].token) = LevelOfToken(tokens[2].token)

\* the first n operators of the chain nested to the left, each node spanning
\* from the start of its left operand to the end of its right operand
RECURSIVE LeftNested(_)
LeftNested(n) ==
    IF n = 0 THEN Leaf(1)
    ELSE Node(OperationOfToken(tokens[2 * n].token), LeftNested(n - 1), Leaf(2 * n + 1))

\* C26: every level parsed through parse_bin_expr is left-associative for
\* chains of any length: a op1 b op2 c with op1 and op2 of one level parses to
\* Binary(op2, Binary(op1, a, b), c), and the span of each Binary node is the
\* union of the spans of its operands.
C26_HelperLevelsLeftAssociative ==
    \A n \in 1..MaxChain :
        SameLevelChain(n) =>
            /\ parsed.ok
            /\ pos = Len(tokens) + 1
            /\ parsed.val = LeftNested(n)

\* `a + b - c + d`: a chain of three additive operators was parsed
C26_Witness ==
    /\ SameLevelChain(3)
    /\ tokens[2].token = "Add"
    /\ tokens[4].token = "Minus"
    /\ tokens[6].token = "Add"

--------------------------------------------------------------------------
(* Properties of the circuit name *)

\* the two spellings of Self in an expression position
SelfAtoms == {Identifier("Self"), CircuitInit("Self")}

\* the atom with the name n in place of Self
Named(e, n) == IF e.k = "Identifier" THEN Identifier(n) ELSE CircuitInit(n)

\* the expression a one-statement function holds, or None
ExpressionOfFunction(f) ==
    IF Len(f.block) = 1
    THEN IF f.block[1].k \in {"Return", "Expression"} THEN f.block[1].expression
         ELSE None
    ELSE None

\* the expression a circuit member holds, or None
ExpressionOfMember(m) ==
    IF m.k = "CircuitConst" THEN m.value
    ELSE IF m.k = "CircuitFunction" THEN ExpressionOfFunction(m.function)
    ELSE None

\* C25: circuit_name is unset outside reduce_circuit; in the output of the pass
\* a Self identifier or Self circuit initialisation in a member of circuit B
\* carries B's name, and one in a top-level function is still Self
C25_SelfIsEnclosingCircuit ==
    /\ circuit_name = None
    /\ \A r \in ProgramRan : r.ok =>
          /\ \A i \in 1..Len(r.input.circuits) :
                \A j \in 1..Len(r.input.circuits[i].members) :
                    ExpressionOfMember(r.input.circuits[i].members[j]) \in SelfAtoms =>
                        ExpressionOfMember(r.val.circuits[i].members[j])
                            = Named(ExpressionOfMember(r.input.circuits[i].members[j]),
                                    r.input.circuits[i].circuit_name)
          /\ \A i \in 1..Len(r.input.functions) :
                ExpressionOfFunction(r.input.functions[i]) \in SelfAtoms =>
                    r.val.functions[i] = r.input.functions[i]

\* a pass over two circuits and a function, each naming Self, has run
C25_Witness ==
    \E r \in ProgramRan :
        /\ r.ok
        /\ Len(r.input.circuits) = 2
        /\ Len(r.input.functions) = 1
        /\ ExpressionOfMember(r.input.circuits[1].members[1]) \in SelfAtoms
        /\ ExpressionOfMember(r.input.circuits[2].members[1]) \in SelfAtoms
        /\ ExpressionOfMember(r.val.circuits[2].members[1]).name = "Bar"
        /\ ExpressionOfFunction(r.input.functions[1]) \in SelfAtoms

\* a member function of some circuit of the program defines a variable whose
\* type holds a SelfType
SelfTypedDefinition(p) ==
    \E i \in 1..Len(p.circuits) :
        \E j \in 1..Len(p.circuits[i].members) :
            /\ p.circuits[i].members[j].k = "CircuitFunction"
            /\ \E n \in 1..Len(p.circuits[i].members[j].function.block) :
                  /\ p.circuits[i].members[j].function.block[n].k = "Definition"
                  /\ ContainsSelf(p.circuits[i].members[j].function.block[n].type_)

\* C30: a run of the pass on a program with a Self-typed definition in a
\* member function does not end in the failed unwrap of canonicalize_self_type
C30_UnwrapNeverFails ==
    \A r \in ProgramRan : SelfTypedDefinition(r.input) => r.err # "panic"

\* what holds of the code: no program with a Self-typed definition in a member
\* function passes; reduce_type rejects it or the unwrap fails
C30_SelfTypedDefinitionNeverPasses ==
    \A r \in ProgramRan : SelfTypedDefinition(r.input) => ~r.ok

--------------------------------------------------------------------------
(* Properties of the character spans *)

\* the bytes that spell the character c in the source
SourceBytes(c) == (CHOOSE t \in CharTokens : t.character = c).bytes

--------------------------------------------------------------------------
(* Properties of the register list and the buffer *)

\* the register at position i (from 0) is Locator(i)
Dense(regs) == \A i \in 1..Len(regs) : regs[i].register = Locator(i - 1)

\* no two registers of the list share an id
DistinctIds(regs) ==
    \A i, j \in 1..Len(regs) : regs[i].register = regs[j].register => i = j

\* the step is one call of spawn_reg, drop_reg or emit
PrimitiveStep == emitted' = None

\* C29: after every step the live registers are dense, position-indexed and
\* of distinct ids, and the buffer still begins with what it held; a
\* spawn_reg adds the register whose id is the length before, a drop_reg
\* removes the register of the highest id, an emit adds one instruction
C29_RegistersDenseBufferAppendOnly ==
    [][ /\ Dense(registers')
        /\ DistinctIds(registers')
        /\ Len(buffer') >= Len(buffer)
        /\ SubSeq(buffer', 1, Len(buffer)) = buffer
        /\ PrimitiveStep =>
              \/ /\ Len(registers') = Len(registers) + 1
                 /\ SubSeq(registers', 1, Len(registers)) = registers
                 /\ registers'[Len(registers')].register = Locator(Len(registers))
                 /\ buffer' = buffer
              \/ /\ Len(registers) > 0
                 /\ registers' = SubSeq(registers, 1, Len(registers) - 1)
                 /\ registers[Len(registers)].register = Locator(Len(registers) - 1)
                 /\ \A i \in 1..Len(registers') :
                       registers'[i].register.n < Len(registers) - 1
                 /\ buffer' = buffer
              \/ /\ Len(buffer') = Len(buffer) + 1
                 /\ registers' = registers
      ]_vars

\* registers were taken and released and two instructions emitted one by one
C29_Witness ==
    /\ emitted = None
    /\ Len(buffer) = 2
    /\ buffer[1] # buffer[2]
    /\ Len(registers) = 2
    /\ registers[2].symbol = Some("b")

--------------------------------------------------------------------------
(* Properties of enforce_program *)

\* the phase a call belongs to
Rank(call) ==
    CASE call = "register_function" -> 1
      [] call = "begin_main_entrypoint" -> 2
      [] call = "enforce_definition_statement" -> 3
      [] call = "enforce_main_entrypoint" -> 4
      [] call = "enforce_function_definition" -> 5

\* the names of a sequence of items or calls
Names(xs) == [i \in 1..Len(xs) |-> xs[i].name]

\* the secondary functions: the top-level functions that are not the
\* entrypoint, then the member functions of the circuits
SecondaryNames ==
    Names(SelectSeq(asg.functions, LAMBDA f : f.name # "main"))
    \o Names(MemberFunctions(asg.scope.circuits))

\* the names of the items whose enforcement fails
FailingNames ==
    {asg.functions[i].name : i \in {j \in 1..Len(asg.functions) : asg.functions[j].fails}}
    \cup {asg.scope.global_consts[i].name :
             i \in {j \in 1..Len(asg.scope.global_consts) : asg.scope.global_consts[j].fails}}
    \cup {f.name : f \in {g \in {MemberFunctions(asg.scope.circuits)[i] :
                                    i \in 1..Len(MemberFunctions(asg.scope.circuits))} : g.fails}}

\* the call is an enforce call that returned an error
Failed(c) == Rank(c.call) >= 3 /\ c.name \in FailingNames

HasEntrypoint == \E i \in 1..Len(asg.functions) : asg.functions[i].name = "main"

\* C22: without an entrypoint enforce_program returns no_main_entrypoint_function
\* and has called nothing; with one, the calls come in phases (the entrypoint
\* registered first, then the secondary functions in order, then the global
\* constants, the entrypoint body, the secondary definitions), the first
\* failed call is the last call and its error is returned
C22_EnforcementOrder ==
    enforced # None =>
        IF ~HasEntrypoint
        THEN enforced.r = Err("no_main_entrypoint_function") /\ enforced.trace = <<>>
        ELSE LET t == enforced.trace
                 registrations == SelectSeq(t, LAMBDA c : Rank(c.call) = 1)
                 enforces == SelectSeq(t, LAMBDA c : Rank(c.call) >= 3)
                 all == Names(asg.scope.global_consts) \o <<"main">> \o SecondaryNames
             IN  /\ t[1] = Call_("register_function", "main")
                 /\ \A i, j \in 1..Len(t) : i < j => Rank(t[i].call) <= Rank(t[j].call)
                 /\ Names(registrations) = <<"main">> \o SecondaryNames
                 /\ Len(enforces) <= Len(all)
                 /\ Names(enforces) = SubSeq(all, 1, Len(enforces))
                 /\ \A i \in 1..Len(t) : Failed(t[i]) => i = Len(t)
                 /\ enforced.r.ok <=> ~Failed(t[Len(t)])
                 /\ enforced.r.ok => Len(enforces) = Len(all)
                 /\ ~enforced.r.ok => enforced.r.err = t[Len(t)].call

\* a program whose entrypoint is declared second, with two circuits and global
\* constants, where the definition of a member function fails
C22_Witness ==
    /\ enforced # None
    /\ Len(asg.functions) = 2
    /\ asg.functions[2].name = "main"
    /\ Len(asg.scope.circuits) = 2
    /\ Len(asg.scope.global_consts) = 1
    /\ enforced.r = Err("enforce_function_definition")
    /\ enforced.trace[Len(enforced.trace)].name = "n"

--------------------------------------------------------------------------
(* Properties of eq_flat *)

\* C28: eq_flat agrees with == on every pair of types and is symmetric
C28_EqFlatIsEquality ==
    compared # None =>
        /\ compared.eq => compared.eq_flat
        /\ compared.eq_flat => compared.eq
        /\ compared.eq_flat = compared.flipped

\* what holds of the code: eq_flat implies ==, it is symmetric, and it agrees
\* with == on every pair but <<Err, Err>>
C28_EqFlatIsEqualityButOnErr ==
    compared # None =>
        /\ compared.eq_flat => compared.eq
        /\ compared.eq_flat = compared.flipped
        /\ type_pair # <<[k |-> "Err"], [k |-> "Err"]>> => (compared.eq => compared.eq_flat)
        /\ type_pair = <<[k |-> "Err"], [k |-> "Err"]>> => (compared.eq /\ ~compared.eq_flat)

--------------------------------------------------------------------------
(* Properties of the annotation pass *)

\* the member functions of the program before the pass and after it, paired
AnnotatedPairs ==
    UNION {{<<ast_program.circuits[c].members[m].function,
              annotated.program.circuits[c].members[m].function>> :
               m \in {n \in 1..Len(ast_program.circuits[c].members) :
                         ast_program.circuits[c].members[n].k = "CircuitFunction"}} :
           c \in 1..Len(ast_program.circuits)}

\* the annotation of the function with that name, if any
AnnotationsNamed(function, name) ==
    {function.annotations[i] : i \in {j \in 1..Len(function.annotations) :
                                         function.annotations[j].name = name}}

\* the function carries an annotation that is neither CoreFunction nor AlwaysConst
UnknownAnnotation(function) ==
    \E i \in 1..Len(function.annotations) :
        function.annotations[i].name \notin {"CoreFunction", "AlwaysConst"}

\* what the two handled names do to a function: before, after
HandledAsStated(before, after) ==
    /\ \A a \in AnnotationsNamed(before, "CoreFunction") :
          after.core_mapping = Some(IF Len(a.arguments) > 0 THEN a.arguments[1]
                                    ELSE before.identifier)
    /\ AnnotationsNamed(before, "CoreFunction") = {} => after.core_mapping = before.core_mapping
    /\ after.const_ = (before.const_ \/ AnnotationsNamed(before, "AlwaysConst") # {})
    /\ after.annotations = <<>>

\* C21: CoreFunction and AlwaysConst are handled as stated and removed, and a
\* function with any other annotation name ends the pass in an error outcome
C21_UnknownAnnotationIsError ==
    annotated # None =>
        IF \E pair \in AnnotatedPairs : UnknownAnnotation(pair[1])
        THEN annotated.outcome = "error"
        ELSE /\ annotated.outcome = "done"
             /\ \A pair \in AnnotatedPairs : HandledAsStated(pair[1], pair[2])

\* what holds of the code: the two names are handled as stated and removed,
\* and any other name ends the pass in todo!()
C21_UnknownAnnotationPanics ==
    annotated # None =>
        IF \E pair \in AnnotatedPairs : UnknownAnnotation(pair[1])
        THEN annotated.outcome = "todo"
        ELSE /\ annotated.outcome = "done"
             /\ \A pair \in AnnotatedPairs : HandledAsStated(pair[1], pair[2])
             /\ annotated.program.functions = ast_program.functions

====
